---- MODULE Spec2Model ----
(***************************************************************************)
(* Authentication, login throttling and password-reset flow of the Task    *)
(* Management API (app/api/v1/endpoints/auth.py, app/utils/security.py)    *)
(* over the in-memory key-value store MockRedis (app/utils/cache.py).      *)
(*                                                                         *)
(* Every request handler is a small-step machine over a request context    *)
(* (the handler's locals and its response) and a world (the store, the     *)
(* user table, the clock).  Spec runs each handler to completion in one    *)
(* action (requests served one at a time); SpecConc runs two worker        *)
(* threads one store/database call at a time.                              *)
(***************************************************************************)
EXTENDS Integers, Sequences, FiniteSets, TLC

VARIABLES
    now,        \* datetime.now().timestamp(), in seconds
    data,       \* MockRedis._data
    expires,    \* MockRedis._expires
    users,      \* the users table: id -> row
    notifications, \* the notifications table: id -> row
    tasks,      \* the tasks table: id -> row
    tags,       \* the tags table: id -> row
    issued,     \* number of reset tokens generated so far (uuid4 draws)
    wallet,     \* the token pair the client holds from its latest login
    started,    \* requests started on the worker threads
    hist,       \* history of the requests served one at a time (not program state)
    proc        \* per worker: the context of its current / last request

vars == <<now, data, expires, users, notifications, tasks, tags, issued, wallet,
          started, hist, proc>>

----------------------------------------------------------------------------
(* Bounds of the model *)

MaxTicks == 5           \* the clock stops after MaxTicks ticks
MaxResetTokens == 1     \* reset tokens that request_password_reset may draw
MaxConcTicks == 2       \* clock ticks while worker threads interleave
MaxConcRequests == 2    \* requests started on the worker threads
MaxSessionTicks == 3    \* quarter-hour ticks within a week of a session
MaxWeeks == 1           \* whole weeks that pass during a session
MaxTasks == 2           \* tasks (and so notifications) that create_task may add
MaxCacheTicks == 1      \* clock ticks while the notification cache is in use
MaxRefreshes == 2       \* token pairs a client holds beside its login's pair
MaxDrips == 5           \* five-minute gaps between the attempts of a drip
MaxStoreSeconds == 3    \* seconds that pass while the store is called directly
MaxStoreCount == 2      \* the count up to which incr is called on a key
MaxOpenResets == 2      \* reset tokens requested for one user before any lapses
MaxFrameTicks == 2      \* clock ticks while two owners share the store

TickSeconds == 15 * 60  \* the clock advances a quarter of an hour at a time

(* Program constants *)

MAX_LOGIN_ATTEMPTS == 5
LOCKOUT_TIME == 15
ACCESS_TOKEN_EXPIRE_MINUTES == 30
REFRESH_TOKEN_EXPIRE_DAYS == 7
RESET_TOKEN_TTL == 3600
CACHE_TTL == 300

Usernames == {"alice", "bob"}
Passwords == {"Sw0rd!x", "NewPass1!"}
Emails == {"alice@example.com", "bob@example.com"}
Workers == {1, 2}

None == <<"None">>

----------------------------------------------------------------------------
(* Python conversions used by the store and the handlers *)

Digits == <<"0", "1", "2", "3", "4", "5", "6", "7", "8", "9">>

\* str(n) for n >= 0: the decimal digits, most significant first
RECURSIVE str(_)
str(n) == IF n < 10 THEN <<Digits[n + 1]>>
          ELSE str(n \div 10) \o <<Digits[(n % 10) + 1]>>

DigitValue(ch) == CHOOSE d \in 0..9 : Digits[d + 1] = ch

\* int(s) for a string of decimal digits
RECURSIVE int(_)
int(s) == IF Len(s) = 1 THEN DigitValue(s[1])
          ELSE 10 * int(SubSeq(s, 1, Len(s) - 1)) + DigitValue(s[Len(s)])

\* truth value of a store reply: None and the empty string are false
Truthy(v) == v # None /\ v # <<>>

\* json.dumps({"user_id": id}) and json.loads(...)["user_id"]
json_dumps(uid) == <<"{", "user_id", ":">> \o str(uid) \o <<"}">>
json_loads(s) == [user_id |-> int(SubSeq(s, 4, Len(s) - 1))]

\* dict helpers: del d[k] and d[k] = v
Drop(f, k) == [x \in DOMAIN f \ {k} |-> f[x]]
Put(f, k, v) == [x \in DOMAIN f \cup {k} |-> IF x = k THEN v ELSE f[x]]

\* the n-th uuid4 drawn by request_password_reset
uuid4(n) == "T" \o Digits[n + 1]
ResetTokens == {uuid4(n) : n \in 1..MaxResetTokens}

LoginKey(username) == "login_attempts:" \o username
NotificationsKey(user_id) == "user_notifications:" \o Digits[user_id + 1]

\* datetime.isoformat() and its inverse, on a time in seconds
isoformat(t) == str(t)
fromisoformat(s) == int(s)

\* json.dumps(list of dicts, cls=DateTimeEncoder): datetimes become ISO strings
json_dumps_list(l) ==
    <<"[">> \o [i \in 1..Len(l) |-> [l[i] EXCEPT !.created_at = isoformat(@)]] \o <<"]">>

\* json.loads of such a string: the list of dicts
json_loads_list(s) == SubSeq(s, 2, Len(s) - 1)

\* fnmatch.fnmatch for a pattern without wildcards: the name itself
fnmatch(name, pattern) == name = pattern
ResetKey(token) == "reset_token:" \o token

----------------------------------------------------------------------------
(* MockRedis: a store is [data |-> _data, expires |-> _expires]; every     *)
(* operation returns the store it leaves and the value it returns.         *)

\* a get that answers None for a lapsed key and leaves it in place
MockRedis_get_keeping(r, key, t) ==
    IF key \in DOMAIN r.expires /\ r.expires[key] < t
    THEN [r |-> r, ret |-> None]
    ELSE [r |-> r,
          ret |-> IF key \in DOMAIN r.data THEN r.data[key] ELSE None]

\* a get that never looks at the expiry record
MockRedis_get_no_expiry(r, key, t) ==
    [r |-> r, ret |-> IF key \in DOMAIN r.data THEN r.data[key] ELSE None]

MockRedis_get(r, key, t) ==
    IF key \in DOMAIN r.expires /\ r.expires[key] < t
    THEN [r |-> [data |-> Drop(r.data, key), expires |-> Drop(r.expires, key)],
          ret |-> None]
    ELSE [r |-> r,
          ret |-> IF key \in DOMAIN r.data THEN r.data[key] ELSE None]

\* an expire that keeps the TTL a key already has (a window fixed at the first failure)
MockRedis_expire_once(r, key, time, t) ==
    IF key \in DOMAIN r.data
    THEN [r |-> [r EXCEPT !.expires =
                    IF key \in DOMAIN r.expires THEN @ ELSE Put(r.expires, key, t + time)],
          ret |-> TRUE]
    ELSE [r |-> r, ret |-> FALSE]

MockRedis_expire(r, key, time, t) ==
    IF key \in DOMAIN r.data
    THEN [r |-> [r EXCEPT !.expires = Put(r.expires, key, t + time)], ret |-> TRUE]
    ELSE [r |-> r, ret |-> FALSE]

\* a setex that stores the value and never sets its expiry
MockRedis_setex_forever(r, key, time, value, t) ==
    [r |-> [r EXCEPT !.data = Put(r.data, key, value)], ret |-> TRUE]

MockRedis_setex(r, key, time, value, t) ==
    [r |-> MockRedis_expire([r EXCEPT !.data = Put(r.data, key, value)], key, time, t).r,
     ret |-> TRUE]

MockRedis_delete(r, key) ==
    IF key \in DOMAIN r.data
    THEN [r |-> [data |-> Drop(r.data, key), expires |-> Drop(r.expires, key)],
          ret |-> TRUE]
    ELSE [r |-> r, ret |-> FALSE]

\* set(key, value, ex=None): ex = 0 stands for a call without ex (None and
\* 0 are both false in "if ex:")
NoEx == 0

MockRedis_set(r, key, value, ex, t) ==
    LET r1 == [r EXCEPT !.data = Put(r.data, key, value)]
    IN  [r |-> IF ex # NoEx THEN MockRedis_expire(r1, key, ex, t).r ELSE r1, ret |-> TRUE]

\* max(1, int(ttl)) of ttl(key)
Max(a, b) == IF a >= b THEN a ELSE b

MockRedis_ttl(r, key, t) ==
    [r |-> r,
     ret |-> IF key \notin DOMAIN r.data THEN -2
             ELSE IF key \notin DOMAIN r.expires THEN -1
             ELSE Max(1, r.expires[key] - t)]

\* _clean_expired: every key whose expiry has passed
MockRedis_clean_expired(r, t) ==
    LET expired == {k \in DOMAIN r.expires : r.expires[k] < t}
    IN  [data |-> [k \in DOMAIN r.data \ expired |-> r.data[k]],
         expires |-> [k \in DOMAIN r.expires \ expired |-> r.expires[k]]]

\* keys(pattern): the matching keys that are left once the expired ones are gone
MockRedis_keys(r, pattern, t) ==
    LET r1 == MockRedis_clean_expired(r, t)
    IN  [r |-> r1, ret |-> {k \in DOMAIN r1.data : fnmatch(k, pattern)}]

\* incr is a read of _data followed by a write of _data: two steps
MockRedis_incr_read(r, key) ==
    IF key \in DOMAIN r.data THEN int(r.data[key]) ELSE 0

MockRedis_incr_write(r, key, current) ==
    [r |-> [r EXCEPT !.data = Put(r.data, key, str(current + 1))],
     ret |-> current + 1]

\* incr(key) called with nothing in between its read and its write
MockRedis_incr(r, key) == MockRedis_incr_write(r, key, MockRedis_incr_read(r, key))

----------------------------------------------------------------------------
(* Credential hasher and token service *)

get_password_hash(password) == <<"$2b$", password>>
verify_password(plain_password, hashed_password) ==
    hashed_password = get_password_hash(plain_password)

SECRET_KEY == "your-secret-key"

\* Optional[timedelta]: <<>> is None, <<d>> is a duration of d seconds
NoDelta == <<>>
timedelta(seconds) == <<seconds>>

\* 'if expires_delta:' is false for None and for a duration of zero length
TruthyDelta(expires_delta) == expires_delta # NoDelta /\ expires_delta[1] # 0

\* jwt.encode(to_encode, SECRET_KEY): the claims under the key's signature
jwt_encode(to_encode, key) == [claims |-> to_encode, key |-> key]

\* to_encode = data.copy(); to_encode.update({"exp": expire}), with payload
\* for the dict that the source calls data
create_access_token(payload, expires_delta, t) ==
    LET expire == IF TruthyDelta(expires_delta) THEN t + expires_delta[1]
                  ELSE t + ACCESS_TOKEN_EXPIRE_MINUTES * 60
    IN  jwt_encode(("exp" :> expire) @@ payload, SECRET_KEY)

\* app.core.utils.create_access_token: the same statements on datetime.utcnow()
core_utils_create_access_token(payload, expires_delta, t) ==
    LET expire == IF TruthyDelta(expires_delta) THEN t + expires_delta[1]
                  ELSE t + ACCESS_TOKEN_EXPIRE_MINUTES * 60
    IN  jwt_encode(("exp" :> expire) @@ payload, SECRET_KEY)

\* app.core.utils.create_refresh_token: exp is set, the refresh claim is not
core_utils_create_refresh_token(payload, t) ==
    LET expire == t + REFRESH_TOKEN_EXPIRE_DAYS * 24 * 60 * 60
    IN  jwt_encode(("exp" :> expire) @@ payload, SECRET_KEY)

\* a refresh token issued without the refresh claim
create_refresh_token_unflagged(payload, t) == core_utils_create_refresh_token(payload, t)

\* app.utils.security.create_refresh_token
create_refresh_token(payload, t) ==
    LET expire == t + REFRESH_TOKEN_EXPIRE_DAYS * 24 * 60 * 60
    IN  jwt_encode(("exp" :> expire) @@ ("refresh" :> TRUE) @@ payload, SECRET_KEY)

\* jwt.decode: the claims, or JWTError on a bad signature or a past expiry
JWTError == [error |-> "JWTError"]

\* a decode that never looks at exp
jwt_decode_no_exp(token, t) ==
    IF token.key # SECRET_KEY THEN JWTError ELSE token.claims

\* a decode that already refuses a token at the very second of its exp
jwt_decode_at_expiry(token, t) ==
    IF token.key # SECRET_KEY THEN JWTError
    ELSE IF "exp" \in DOMAIN token.claims /\ token.claims.exp <= t THEN JWTError
    ELSE token.claims

jwt_decode(token, t) ==
    IF token.key # SECRET_KEY THEN JWTError
    ELSE IF "exp" \in DOMAIN token.claims /\ token.claims.exp < t THEN JWTError
    ELSE token.claims

----------------------------------------------------------------------------
(* The users table *)

NoUser == 0

UserByUsername(u, username) ==
    IF \E id \in DOMAIN u : u[id].username = username
    THEN CHOOSE id \in DOMAIN u : u[id].username = username
    ELSE NoUser

UserByEmail(u, email) ==
    IF \E id \in DOMAIN u : u[id].email = email
    THEN CHOOSE id \in DOMAIN u : u[id].email = email
    ELSE NoUser

UserById(u, id) == IF id \in DOMAIN u THEN id ELSE NoUser

\* the id sqlite gives a new row: one above the largest id in the table
NextId(tbl) ==
    IF DOMAIN tbl = {} THEN 1
    ELSE (CHOOSE i \in DOMAIN tbl : \A j \in DOMAIN tbl : j <= i) + 1

----------------------------------------------------------------------------
(* Request contexts: the handler's position (pc), its inputs, its locals   *)
(* and its response.  A world is the state the handlers share.             *)

Idle ==
    [op |-> "none", pc |-> "done", username |-> "", password |-> "",
     email |-> "", token |-> "", new_password |-> "", bearer |-> None,
     uuid |-> "", user |-> NoUser, user_id |-> NoUser, current |-> 0,
     token_data |-> None, fault |-> "none", notification_id |-> 0,
     task |-> [text |-> "", priority |-> 1, tags |-> <<>>], result |-> <<>>,
     keys |-> {}, output |-> <<>>, outbox |-> <<>>, key |-> "", ret |-> None,
     ret_int |-> 0, ret_bool |-> FALSE,
     status |-> 0, body |-> [message |-> ""], calls |-> <<>>]

World ==
    [redis |-> [data |-> data, expires |-> expires], users |-> users,
     notifications |-> notifications, tasks |-> tasks, tags |-> tags,
     issued |-> issued, now |-> now]

HTTPException(c, status_code, detail) ==
    [c EXCEPT !.pc = "done", !.status = status_code, !.body = [detail |-> detail]]

Return(c, body) == [c EXCEPT !.pc = "done", !.status = 200, !.body = body]

Called(c, name) == [c EXCEPT !.calls = Append(@, name)]

\* an exception that no handler catches: the framework answers 500
Raise(c) ==
    [c EXCEPT !.pc = "done", !.status = 500, !.body = [detail |-> "Internal Server Error"]]

\* print(...) and logger.info(...) / logger.warning(...): a line of the
\* process's printed and logged output, as the pieces it is formatted from
Output(c, line) == [c EXCEPT !.output = Append(@, line)]

\* log_user_action(user_id, action, details)
log_user_action(c, user_id, action, details) ==
    Output(c, <<"User ">> \o str(user_id) \o <<" - ", action, " - ", details>>)

\* log_security_event(event_type, details)
log_security_event(c, event_type, details) ==
    Output(c, <<"Security event: ", event_type, " - ">> \o details)

\* a throttle check that lets the attempt at the limit through (> for >=)
check_login_attempts_gt(attempts) ==
    IF Truthy(attempts) /\ int(attempts) > MAX_LOGIN_ATTEMPTS THEN FALSE ELSE TRUE

\* check_login_attempts(username): FALSE when the counter has reached the limit
check_login_attempts(attempts) ==
    IF Truthy(attempts) /\ int(attempts) >= MAX_LOGIN_ATTEMPTS THEN FALSE ELSE TRUE

(* login *)

\* a throttle check that reads a store failure as 'no failures counted'
login_check_fail_open(c, w) ==
    LET g == MockRedis_get(w.redis, LoginKey(c.username), w.now)
        c1 == Called(c, "check_login_attempts")
    IN  IF c.fault = "get" THEN [w |-> w, c |-> [c1 EXCEPT !.pc = "login_query"]]
        ELSE [w |-> [w EXCEPT !.redis = g.r],
              c |-> IF ~check_login_attempts(g.ret)
                    THEN HTTPException(c1, 429,
                                       "Too many login attempts. Please try again later.")
                    ELSE [c1 EXCEPT !.pc = "login_query"]]

\* a throttle check that restarts the window of a locked username
login_check_extending(c, w) ==
    LET g == MockRedis_get(w.redis, LoginKey(c.username), w.now)
        c1 == Called(c, "check_login_attempts")
    IN  IF c.fault = "get" THEN [w |-> w, c |-> Raise(c1)]
        ELSE IF ~check_login_attempts(g.ret)
        THEN [w |-> [w EXCEPT !.redis = MockRedis_expire(g.r, LoginKey(c.username),
                                                         LOCKOUT_TIME * 60, w.now).r],
              c |-> HTTPException(c1, 429,
                                  "Too many login attempts. Please try again later.")]
        ELSE [w |-> [w EXCEPT !.redis = g.r], c |-> [c1 EXCEPT !.pc = "login_query"]]

\* a throttle check that counts the attempt it rejects
login_check_counting(c, w) ==
    LET g == MockRedis_get(w.redis, LoginKey(c.username), w.now)
        c1 == Called(c, "check_login_attempts")
    IN  IF c.fault = "get" THEN [w |-> w, c |-> Raise(c1)]
        ELSE IF ~check_login_attempts(g.ret)
        THEN [w |-> [w EXCEPT !.redis = MockRedis_incr(g.r, LoginKey(c.username)).r],
              c |-> HTTPException(c1, 429,
                                  "Too many login attempts. Please try again later.")]
        ELSE [w |-> [w EXCEPT !.redis = g.r], c |-> [c1 EXCEPT !.pc = "login_query"]]

\* the throttle check that opens login; an exception of redis_client.get is
\* caught nowhere
login_check(c, w) ==
    LET g == MockRedis_get(w.redis, LoginKey(c.username), w.now)
        c1 == Called(c, "check_login_attempts")
    IN  IF c.fault = "get" THEN [w |-> w, c |-> Raise(c1)]
        ELSE [w |-> [w EXCEPT !.redis = g.r],
              c |-> IF ~check_login_attempts(g.ret)
                    THEN HTTPException(c1, 429,
                                       "Too many login attempts. Please try again later.")
                    ELSE [c1 EXCEPT !.pc = "login_query"]]

\* a lookup that tells an unknown username apart (404, nothing counted)
login_query_enumerating(c, w) ==
    LET id == UserByUsername(w.users, c.username)
        c1 == Called(c, "db.query")
        c2 == IF id = NoUser THEN c1 ELSE Called(c1, "verify_password")
    IN  [w |-> w,
         c |-> IF id = NoUser THEN HTTPException(c1, 404, "User not found")
               ELSE IF ~verify_password(c.password, w.users[id].hashed_password)
               THEN [c2 EXCEPT !.pc = "login_incr_read"]
               ELSE IF ~w.users[id].is_active
               THEN HTTPException(c2, 400, "Inactive user")
               ELSE [c2 EXCEPT !.pc = "login_reset", !.user = id]]

\* the user lookup, the password verification and the is_active test
login_query(c, w) ==
    LET id == UserByUsername(w.users, c.username)
        c1 == Called(c, "db.query")
        c2 == IF id = NoUser THEN c1 ELSE Called(c1, "verify_password")
    IN  [w |-> w,
         c |-> IF id = NoUser \/ ~verify_password(c.password, w.users[id].hashed_password)
               THEN [c2 EXCEPT !.pc = "login_incr_read"]
               ELSE IF ~w.users[id].is_active
               THEN HTTPException(c2, 400, "Inactive user")
               ELSE [c2 EXCEPT !.pc = "login_reset", !.user = id]]

\* increment_login_attempts, first half of redis_client.incr: read the count
login_incr_read(c, w) ==
    [w |-> w,
     c |-> [Called(c, "incr") EXCEPT !.pc = "login_incr_write",
                !.current = MockRedis_incr_read(w.redis, LoginKey(c.username))]]

\* second half of redis_client.incr: write the count back
login_incr_write(c, w) ==
    [w |-> [w EXCEPT !.redis = MockRedis_incr_write(@, LoginKey(c.username), c.current).r],
     c |-> [c EXCEPT !.pc = "login_expire"]]

\* redis_client.expire(key, LOCKOUT_TIME * 60), then the 401; an exception
\* of redis_client.expire is caught nowhere
login_expire(c, w) ==
    IF c.fault = "expire" THEN [w |-> w, c |-> Raise(Called(c, "expire"))]
    ELSE
    [w |-> [w EXCEPT !.redis =
                MockRedis_expire(@, LoginKey(c.username), LOCKOUT_TIME * 60, w.now).r],
     c |-> HTTPException(log_security_event(Called(c, "expire"), "login_failed",
                                 <<"Failed login attempt for user: ", c.username>>),
                         401, "Incorrect username or password")]

\* a verified login that leaves the counter in place
login_reset_skipped(c, w) ==
    [w |-> w, c |-> [Called(c, "reset_login_attempts") EXCEPT !.pc = "login_tokens"]]

\* reset_login_attempts on a verified login
login_reset(c, w) ==
    [w |-> [w EXCEPT !.redis = MockRedis_delete(@, LoginKey(c.username)).r],
     c |-> [Called(c, "reset_login_attempts") EXCEPT !.pc = "login_tokens"]]

\* the token pair and the response
login_tokens(c, w) ==
    [w |-> w,
     c |-> Return(log_user_action(Called(c, "create_tokens"), c.user, "login", "User logged in"),
                  [access_token |-> create_access_token([sub |-> w.users[c.user].username],
                                        timedelta(ACCESS_TOKEN_EXPIRE_MINUTES * 60), w.now),
                   refresh_token |-> create_refresh_token([sub |-> w.users[c.user].username],
                                                          w.now),
                   token_type |-> "bearer"])]

(* register *)

\* the new-account mail that the background task hands to send_email
send_new_account_email(email_to, username, password) ==
    [email_to |-> email_to,
     subject |-> "Dobro pozhalovat v Task Management API",
     html_content |-> <<"<li>Imya polzovatelya: ", username, "</li><li>Parol: ",
                        password, "</li>">>]

\* the rows that (User.username == username) | (User.email == email) selects
UsersLike(u, username, email) ==
    {id \in DOMAIN u : u[id].username = username \/ u[id].email = email}

\* print of user_in.dict(), then the lookup of an existing user
register_query(c, w) ==
    LET c1 == Output(c, <<"Registering user: ", "username", c.username, "email", c.email,
                          "password", c.password>>)
        c2 == Called(c1, "db.query")
        found == UsersLike(w.users, c.username, c.email)
        existing_user == CHOOSE id \in found : \A j \in found : id <= j
    IN  [w |-> w,
         c |-> IF found # {}
               THEN HTTPException(Output(c2, <<"User already exists: ",
                                               w.users[existing_user].username>>),
                                  400, "Username or email already registered")
               ELSE [c2 EXCEPT !.pc = "register_commit"]]

\* a users table without unique indexes: the commit always inserts the row
register_commit_unconstrained(c, w) ==
    LET hashed_password == get_password_hash(c.password)
        c1 == Output(Called(c, "get_password_hash"), <<"Created user object: ", c.username>>)
        id == NextId(w.users)
        user == [username |-> c.username, email |-> c.email,
                 hashed_password |-> hashed_password, is_active |-> TRUE, role |-> "user"]
    IN  [w |-> [w EXCEPT !.users = Put(@, id, user)],
         c |-> [Output(Called(c1, "db.commit"), <<"User saved to database: ">> \o str(id))
                   EXCEPT !.pc = "register_respond", !.user = id]]

\* get_password_hash, db.add and db.commit; the unique indexes of username
\* and email make the commit raise IntegrityError on a duplicate
register_commit(c, w) ==
    LET hashed_password == get_password_hash(c.password)
        c1 == Output(Called(c, "get_password_hash"), <<"Created user object: ", c.username>>)
        id == NextId(w.users)
        user == [username |-> c.username, email |-> c.email,
                 hashed_password |-> hashed_password, is_active |-> TRUE, role |-> "user"]
    IN  IF UsersLike(w.users, c.username, c.email) # {}
        THEN [w |-> w, c |-> Raise(Called(c1, "db.commit"))]
        ELSE [w |-> [w EXCEPT !.users = Put(@, id, user)],
              c |-> [Output(Called(c1, "db.commit"), <<"User saved to database: ">> \o str(id))
                        EXCEPT !.pc = "register_respond", !.user = id]]

\* the background task of the new-account mail, the log line and the
\* UserResponse of the refreshed user object
register_respond(c, w) ==
    LET c1 == [Called(c, "add_task") EXCEPT !.outbox =
                  Append(@, send_new_account_email(c.email, c.username, c.password))]
    IN  [w |-> w,
         c |-> Return(log_user_action(c1, c.user, "register", "New user registered"),
                      [id |-> c.user, username |-> c.username, email |-> c.email,
                       is_active |-> TRUE, role |-> "user"])]

(* request_password_reset *)

request_query(c, w) ==
    LET id == UserByEmail(w.users, c.email)
    IN  [w |-> w,
         c |-> IF id = NoUser THEN HTTPException(Called(c, "db.query"), 404, "User not found")
               ELSE [Called(c, "db.query") EXCEPT !.pc = "request_setex", !.user = id]]

\* reset_token = str(uuid.uuid4()), stored for an hour, and the response
request_setex(c, w) ==
    LET reset_token == uuid4(w.issued + 1)
    IN  [w |-> [w EXCEPT !.issued = @ + 1,
                         !.redis = MockRedis_setex(@, ResetKey(reset_token), RESET_TOKEN_TTL,
                                                   json_dumps(c.user), w.now).r],
         c |-> [Return(Called(c, "setex"), [message |-> "Password reset email sent"])
                   EXCEPT !.uuid = reset_token]]

(* reset_password *)

\* a token lookup that tells an expired token from an unknown one
reset_get_leaky(c, w) ==
    LET key == ResetKey(c.token)
        lapsed == key \in DOMAIN w.redis.expires /\ w.redis.expires[key] < w.now
        g == MockRedis_get(w.redis, key, w.now)
        c1 == Called(c, "get")
    IN  [w |-> [w EXCEPT !.redis = g.r],
         c |-> IF lapsed THEN HTTPException(c1, 400, "Token expired")
               ELSE IF ~Truthy(g.ret)
               THEN HTTPException(c1, 400, "Invalid or expired token")
               ELSE [c1 EXCEPT !.pc = "reset_query", !.token_data = json_loads(g.ret)]]

\* the token lookup; an exception of redis_client.get is caught nowhere
reset_get(c, w) ==
    LET g == MockRedis_get(w.redis, ResetKey(c.token), w.now)
        c1 == Called(c, "get")
    IN  IF c.fault = "get" THEN [w |-> w, c |-> Raise(c1)]
        ELSE [w |-> [w EXCEPT !.redis = g.r],
              c |-> IF ~Truthy(g.ret)
                    THEN HTTPException(c1, 400, "Invalid or expired token")
                    ELSE [c1 EXCEPT !.pc = "reset_query",
                                    !.token_data = json_loads(g.ret)]]

\* the user lookup by the id stored with the token
reset_query(c, w) ==
    LET id == UserById(w.users, c.token_data.user_id)
    IN  [w |-> w,
         c |-> IF id = NoUser THEN HTTPException(Called(c, "db.query"), 404, "User not found")
               ELSE [Called(c, "db.query") EXCEPT !.pc = "reset_commit", !.user = id]]

\* a credential write that stores the new secret unhashed
reset_commit_plain(c, w) ==
    [w |-> IF c.user \in DOMAIN w.users
           THEN [w EXCEPT !.users[c.user].hashed_password = <<"plain", c.new_password>>]
           ELSE w,
     c |-> [Called(c, "db.commit") EXCEPT !.pc = "reset_delete"]]

\* the credential write: user.hashed_password = ...; db.commit()
reset_commit(c, w) ==
    [w |-> IF c.user \in DOMAIN w.users
           THEN [w EXCEPT !.users[c.user].hashed_password = get_password_hash(c.new_password)]
           ELSE w,
     c |-> [Called(c, "db.commit") EXCEPT !.pc = "reset_delete"]]

\* a redemption that leaves the token in the store
reset_delete_skipped(c, w) ==
    [w |-> w,
     c |-> Return(log_user_action(Called(c, "delete"), c.user, "password_reset",
                                  "Password reset completed"),
                  [message |-> "Password reset successful"])]

\* the token delete and the response; an exception of redis_client.delete
\* is caught nowhere, and the commit before it stands
reset_delete(c, w) ==
    IF c.fault = "delete" THEN [w |-> w, c |-> Raise(Called(c, "delete"))]
    ELSE
    [w |-> [w EXCEPT !.redis = MockRedis_delete(@, ResetKey(c.token)).r],
     c |-> Return(log_user_action(Called(c, "delete"), c.user, "password_reset",
                                  "Password reset completed"),
                  [message |-> "Password reset successful"])]

(* get_current_user *)

\* the detail of credentials_exception, transliterated to ASCII
credentials_exception == "Ne udalos proverit uchetnye dannye"

get_current_user(c, w) ==
    LET payload == jwt_decode(c.bearer, w.now)
        has_sub == payload # JWTError /\ "sub" \in DOMAIN payload
        id == IF has_sub THEN UserByUsername(w.users, payload.sub) ELSE NoUser
    IN  [w |-> w,
         c |-> IF ~has_sub \/ id = NoUser
               THEN HTTPException(Called(c, "jwt.decode"), 401, credentials_exception)
               ELSE [Return(Called(c, "jwt.decode"), [username |-> w.users[id].username])
                        EXCEPT !.user = id]]

(* Cache helpers of app/utils/cache.py and the tables behind them *)

\* clear_cache(key_pattern): delete every key that keys(key_pattern) returns
RECURSIVE DeleteAll(_, _)
DeleteAll(r, ks) ==
    IF ks = {} THEN r
    ELSE LET k == CHOOSE x \in ks : TRUE
         IN  DeleteAll(MockRedis_delete(r, k).r, ks \ {k})

\* a clear_cache that takes its other branch: flushall()
clear_cache_flushall(r, key_pattern, t) ==
    [r |-> [data |-> <<>>, expires |-> <<>>], ret |-> {key_pattern}]

clear_cache(r, key_pattern, t) ==
    LET found == MockRedis_keys(r, key_pattern, t)
    IN  [r |-> DeleteAll(found.r, found.ret), ret |-> found.ret]

\* NotificationResponse.model_validate(notification)
model_validate(id, row) ==
    [id |-> id, message |-> row.message, is_read |-> row.is_read,
     created_at |-> row.created_at, user_id |-> row.user_id]

\* the rows ids of tbl as a list, created_at descending (rows of one instant
\* in id order)
RECURSIVE order_by_created_at_desc(_, _)
order_by_created_at_desc(tbl, ids) ==
    IF ids = {} THEN <<>>
    ELSE LET first == CHOOSE i \in ids : \A j \in ids :
                          \/ tbl[j].created_at < tbl[i].created_at
                          \/ tbl[j].created_at = tbl[i].created_at /\ i <= j
         IN  <<model_validate(first, tbl[first])>>
                 \o order_by_created_at_desc(tbl, ids \ {first})

\* db.query(Notification).filter(user_id == ...).order_by(created_at.desc()).all()
query_notifications(tbl, user_id) ==
    order_by_created_at_desc(tbl, {i \in DOMAIN tbl : tbl[i].user_id = user_id})

\* the response body as the client reads it: from response objects (datetimes
\* are written as ISO strings) and from cached dicts (ISO strings are parsed
\* by the response model and written again)
respond_objects(l) == [i \in 1..Len(l) |-> [l[i] EXCEPT !.created_at = isoformat(@)]]
respond_dicts(l) ==
    [i \in 1..Len(l) |-> [l[i] EXCEPT !.created_at = isoformat(fromisoformat(@))]]

\* Depends(get_current_user) of a handler whose body starts at position next
depends_get_current_user(c, w, next) ==
    LET g == get_current_user(c, w).c
    IN  [w |-> w,
         c |-> IF g.status = 401 THEN g
               ELSE [g EXCEPT !.pc = next, !.status = 0, !.body = [message |-> ""]]]

(* get_notifications *)

\* a cache lookup without the try/except of get_cached_data
notif_cache_get_raising(c, w) ==
    LET key == NotificationsKey(c.user)
        g == MockRedis_get(w.redis, key, w.now)
        c1 == Called(c, "get")
        cached == IF Truthy(g.ret) THEN json_loads_list(g.ret) ELSE <<>>
    IN  IF c.fault = "get"
        THEN [w |-> w, c |-> [c1 EXCEPT !.pc = "done", !.status = 500,
                                        !.body = [detail |-> "Internal Server Error"]]]
        ELSE [w |-> [w EXCEPT !.redis = g.r],
              c |-> IF cached # <<>>
                    THEN Return(c1, [notifications |-> respond_dicts(cached)])
                    ELSE [c1 EXCEPT !.pc = "notif_query"]]

\* get_cached_data(cache_key) and the return of a snapshot that is not empty;
\* an exception of the store call is logged and read as a miss
notif_cache_get(c, w) ==
    LET key == NotificationsKey(c.user)
        g == MockRedis_get(w.redis, key, w.now)
        c1 == Called(c, "get")
        cached == IF Truthy(g.ret) THEN json_loads_list(g.ret) ELSE <<>>
    IN  IF c.fault = "get"
        THEN [w |-> w, c |-> [c1 EXCEPT !.pc = "notif_query"]]
        ELSE [w |-> [w EXCEPT !.redis = g.r],
              c |-> IF cached # <<>>
                    THEN Return(c1, [notifications |-> respond_dicts(cached)])
                    ELSE [c1 EXCEPT !.pc = "notif_query"]]

\* the read of the source of truth
notif_query(c, w) ==
    [w |-> w,
     c |-> [Called(c, "db.query") EXCEPT !.pc = "notif_cache_set",
                !.result = query_notifications(w.notifications, c.user)]]

\* cache_data(cache_key, ..., CACHE_TTL) and the response; an exception of
\* the store call is logged and ignored
notif_cache_set(c, w) ==
    [w |-> IF c.fault = "setex" THEN w
           ELSE [w EXCEPT !.redis = MockRedis_setex(@, NotificationsKey(c.user), CACHE_TTL,
                                                    json_dumps_list(c.result), w.now).r],
     c |-> Return(Called(c, "setex"), [notifications |-> respond_objects(c.result)])]

(* mark_notification_read *)

mark_commit(c, w) ==
    LET id == c.notification_id
        found == id \in DOMAIN w.notifications /\ w.notifications[id].user_id = c.user
        c1 == Called(c, "db.query")
    IN  IF ~found
        THEN [w |-> w, c |-> HTTPException(c1, 404, "Notification not found")]
        ELSE IF w.notifications[id].is_read
        THEN [w |-> w, c |-> HTTPException(c1, 400, "Notification already marked as read")]
        ELSE [w |-> [w EXCEPT !.notifications[id].is_read = TRUE],
              c |-> [Called(c1, "db.commit") EXCEPT !.pc = "mark_clear"]]

\* a handler that commits and leaves the cache as it is
mark_clear_skipped(c, w) ==
    [w |-> w, c |-> Return(c, [message |-> "Notification marked as read"])]

\* clear_cache(f"user_notifications:{current_user.id}") and the response
mark_clear(c, w) ==
    LET cleared == clear_cache(w.redis, NotificationsKey(c.user), w.now)
    IN  [w |-> [w EXCEPT !.redis = cleared.r],
         c |-> Return([Called(c, "clear_cache") EXCEPT !.keys = cleared.ret],
                      [message |-> "Notification marked as read"])]

(* delete_notification *)

delnotif_commit(c, w) ==
    LET id == c.notification_id
        found == id \in DOMAIN w.notifications /\ w.notifications[id].user_id = c.user
        c1 == Called(c, "db.query")
    IN  IF ~found
        THEN [w |-> w, c |-> HTTPException(c1, 404, "Notification not found")]
        ELSE [w |-> [w EXCEPT !.notifications = Drop(@, id)],
              c |-> [Called(c1, "db.commit") EXCEPT !.pc = "delnotif_clear"]]

delnotif_clear(c, w) ==
    LET cleared == clear_cache(w.redis, NotificationsKey(c.user), w.now)
    IN  [w |-> [w EXCEPT !.redis = cleared.r],
         c |-> Return([Called(c, "clear_cache") EXCEPT !.keys = cleared.ret],
                      [message |-> "Notification deleted successfully"])]

(* create_task *)

\* the tag rows of user_id named in names
TagIds(tbl, names, user_id) ==
    {i \in DOMAIN tbl : tbl[i].user_id = user_id
                        /\ \E n \in 1..Len(names) : tbl[i].name = names[n]}

\* for tag_name in task.tags: add a Tag row unless the user has one of that name
RECURSIVE add_tags(_, _, _)
add_tags(tbl, names, user_id) ==
    IF names = <<>> THEN tbl
    ELSE LET name == Head(names)
             have == \E i \in DOMAIN tbl : tbl[i].name = name /\ tbl[i].user_id = user_id
         IN  add_tags(IF have THEN tbl
                      ELSE Put(tbl, NextId(tbl), [name |-> name, user_id |-> user_id]),
                      Tail(names), user_id)

\* the tags, the task, its notification and db.commit()
task_commit(c, w) ==
    LET tags1 == add_tags(w.tags, c.task.tags, c.user)
        new_task == [text |-> c.task.text, priority |-> c.task.priority, is_completed |-> FALSE,
                     owner_id |-> c.user, created_at |-> w.now,
                     tags |-> TagIds(tags1, c.task.tags, c.user)]
        notification == [user_id |-> c.user,
                         message |-> "Sozdana novaya zadacha: " \o c.task.text,
                         is_read |-> FALSE, created_at |-> w.now]
    IN  [w |-> [w EXCEPT !.tags = tags1,
                         !.tasks = Put(@, NextId(@), new_task),
                         !.notifications = Put(@, NextId(@), notification)],
         c |-> [Called(c, "db.commit") EXCEPT !.pc = "task_clear",
                                              !.result = <<NextId(w.tasks)>>]]

task_clear(c, w) ==
    LET cleared == clear_cache(w.redis, NotificationsKey(c.user), w.now)
        id == c.result[1]
    IN  [w |-> [w EXCEPT !.redis = cleared.r],
         c |-> Return([Called(c, "clear_cache") EXCEPT !.keys = cleared.ret],
                      [id |-> id, text |-> w.tasks[id].text, owner_id |-> w.tasks[id].owner_id,
                       tags |-> c.task.tags])]

(* refresh_token *)

\* a decode that never asks for the refresh claim
refresh_decode_any_kind(c, w) ==
    LET payload == jwt_decode(c.bearer, w.now)
        c1 == Called(c, "jwt.decode")
    IN  [w |-> w,
         c |-> IF payload = JWTError \/ "sub" \notin DOMAIN payload
               THEN HTTPException(c1, 401, "Could not validate credentials")
               ELSE [c1 EXCEPT !.pc = "refresh_query", !.username = payload.sub]]

\* jwt.decode of request["refresh_token"], the sub claim and the refresh claim
refresh_decode(c, w) ==
    LET payload == jwt_decode(c.bearer, w.now)
        c1 == Called(c, "jwt.decode")
    IN  [w |-> w,
         c |-> IF payload = JWTError
               THEN HTTPException(c1, 401, "Could not validate credentials")
               ELSE IF "sub" \notin DOMAIN payload
               THEN HTTPException(c1, 401, "Could not validate credentials")
               ELSE IF ~("refresh" \in DOMAIN payload /\ payload.refresh)
               THEN HTTPException(c1, 401, "Invalid refresh token")
               ELSE [c1 EXCEPT !.pc = "refresh_query", !.username = payload.sub]]

\* a refresh that hands back a second token without the refresh claim
refresh_query_unflagged(c, w) ==
    LET id == UserByUsername(w.users, c.username)
        c1 == Called(c, "db.query")
    IN  [w |-> w,
         c |-> IF id = NoUser THEN HTTPException(c1, 401, "User not found")
               ELSE Return([Called(c1, "create_tokens") EXCEPT !.user = id],
                           [access_token |-> create_access_token([sub |-> w.users[id].username],
                                                 timedelta(ACCESS_TOKEN_EXPIRE_MINUTES * 60), w.now),
                            refresh_token |-> create_refresh_token_unflagged(
                                                 [sub |-> w.users[id].username], w.now),
                            token_type |-> "bearer"])]

\* the user lookup, the new token pair and the response
refresh_query(c, w) ==
    LET id == UserByUsername(w.users, c.username)
        c1 == Called(c, "db.query")
    IN  [w |-> w,
         c |-> IF id = NoUser THEN HTTPException(c1, 401, "User not found")
               ELSE Return([Called(c1, "create_tokens") EXCEPT !.user = id],
                           [access_token |-> create_access_token([sub |-> w.users[id].username],
                                                 timedelta(ACCESS_TOKEN_EXPIRE_MINUTES * 60), w.now),
                            refresh_token |-> create_refresh_token([sub |-> w.users[id].username],
                                                                   w.now),
                            token_type |-> "bearer"])]

(* delete_user *)

\* cascade="all, delete-orphan": the rows of tbl that user_id does not own
Owned(tbl, ids, user_id) == [i \in {j \in ids : tbl[j].user_id # user_id} |-> tbl[i]]

\* Depends(get_current_user): the caller's row, or the 401 of get_current_user
delete_user_depends(c, w) ==
    LET g == get_current_user(c, w).c
    IN  [w |-> w,
         c |-> IF g.status = 401 THEN g
               ELSE [g EXCEPT !.pc = "delete_user_body", !.status = 0,
                              !.body = [message |-> ""]]]

\* the permission test, the lookup, db.delete and db.commit
delete_user_body(c, w) ==
    IF c.user # c.user_id /\ w.users[c.user].role # "admin"
    THEN [w |-> w, c |-> HTTPException(c, 403, "Not enough permissions")]
    ELSE IF UserById(w.users, c.user_id) = NoUser
    THEN [w |-> w, c |-> HTTPException(Called(c, "db.query"), 404, "User not found")]
    ELSE [w |-> [w EXCEPT !.users = Drop(@, c.user_id),
                          !.notifications = Owned(@, DOMAIN @, c.user_id),
                          !.tasks = [i \in {j \in DOMAIN @ : @[j].owner_id # c.user_id}
                                        |-> @[i]],
                          !.tags = Owned(@, DOMAIN @, c.user_id)],
          c |-> Return([Called(Called(c, "db.query"), "db.commit")
                           EXCEPT !.username = w.users[c.user_id].username],
                       [message |-> "User deleted successfully"])]

\* one step of a handler, by its position
Step(c, w) ==
    CASE c.pc = "login_check" -> login_check(c, w)
      [] c.pc = "login_query" -> login_query(c, w)
      [] c.pc = "login_incr_read" -> login_incr_read(c, w)
      [] c.pc = "login_incr_write" -> login_incr_write(c, w)
      [] c.pc = "login_expire" -> login_expire(c, w)
      [] c.pc = "login_reset" -> login_reset(c, w)
      [] c.pc = "login_tokens" -> login_tokens(c, w)
      [] c.pc = "register_query" -> register_query(c, w)
      [] c.pc = "register_commit" -> register_commit(c, w)
      [] c.pc = "register_respond" -> register_respond(c, w)
      [] c.pc = "request_query" -> request_query(c, w)
      [] c.pc = "request_setex" -> request_setex(c, w)
      [] c.pc = "reset_get" -> reset_get(c, w)
      [] c.pc = "reset_query" -> reset_query(c, w)
      [] c.pc = "reset_commit" -> reset_commit(c, w)
      [] c.pc = "reset_delete" -> reset_delete(c, w)
      [] c.pc = "get_current_user" -> get_current_user(c, w)
      [] c.pc = "refresh_decode" -> refresh_decode(c, w)
      [] c.pc = "refresh_query" -> refresh_query(c, w)
      [] c.pc = "delete_user_depends" -> delete_user_depends(c, w)
      [] c.pc = "delete_user_body" -> delete_user_body(c, w)
      [] c.pc = "notif_depends" -> depends_get_current_user(c, w, "notif_cache_get")
      [] c.pc = "notif_cache_get" -> notif_cache_get(c, w)
      [] c.pc = "notif_query" -> notif_query(c, w)
      [] c.pc = "notif_cache_set" -> notif_cache_set(c, w)
      [] c.pc = "mark_depends" -> depends_get_current_user(c, w, "mark_commit")
      [] c.pc = "mark_commit" -> mark_commit(c, w)
      [] c.pc = "mark_clear" -> mark_clear(c, w)
      [] c.pc = "delnotif_depends" -> depends_get_current_user(c, w, "delnotif_commit")
      [] c.pc = "delnotif_commit" -> delnotif_commit(c, w)
      [] c.pc = "delnotif_clear" -> delnotif_clear(c, w)
      [] c.pc = "task_depends" -> depends_get_current_user(c, w, "task_commit")
      [] c.pc = "task_commit" -> task_commit(c, w)
      [] c.pc = "task_clear" -> task_clear(c, w)

\* a handler run from its position to its response with nothing in between
RECURSIVE Run(_, _)
Run(c, w) == IF c.pc = "done" THEN [c |-> c, w |-> w]
             ELSE LET s == Step(c, w) IN Run(s.c, s.w)

\* the contexts of the requests as they arrive
register_request(username, email, password) ==
    [Idle EXCEPT !.op = "register", !.pc = "register_query",
                 !.username = username, !.email = email, !.password = password]

login_request(username, password) ==
    [Idle EXCEPT !.op = "login", !.pc = "login_check",
                 !.username = username, !.password = password]

request_password_reset_request(email) ==
    [Idle EXCEPT !.op = "request_password_reset", !.pc = "request_query", !.email = email]

reset_password_request(token, new_password) ==
    [Idle EXCEPT !.op = "reset_password", !.pc = "reset_get",
                 !.token = token, !.new_password = new_password]

get_current_user_request(bearer) ==
    [Idle EXCEPT !.op = "get_current_user", !.pc = "get_current_user", !.bearer = bearer]

refresh_token_request(refresh_token) ==
    [Idle EXCEPT !.op = "refresh_token", !.pc = "refresh_decode", !.bearer = refresh_token]

delete_user_request(bearer, user_id) ==
    [Idle EXCEPT !.op = "delete_user", !.pc = "delete_user_depends",
                 !.bearer = bearer, !.user_id = user_id]

get_notifications_request(bearer, fault) ==
    [Idle EXCEPT !.op = "get_notifications", !.pc = "notif_depends",
                 !.bearer = bearer, !.fault = fault]

mark_notification_read_request(bearer, notification_id) ==
    [Idle EXCEPT !.op = "mark_notification_read", !.pc = "mark_depends",
                 !.bearer = bearer, !.notification_id = notification_id]

delete_notification_request(bearer, notification_id) ==
    [Idle EXCEPT !.op = "delete_notification", !.pc = "delnotif_depends",
                 !.bearer = bearer, !.notification_id = notification_id]

create_task_request(bearer, task) ==
    [Idle EXCEPT !.op = "create_task", !.pc = "task_depends",
                 !.bearer = bearer, !.task = task]

\* the client keeps the token pair of its latest successful login, and
\* beside it every pair that refresh-token has returned since
Keep(c, held) ==
    IF c.op = "login" /\ c.pc = "done" /\ c.status = 200
    THEN {c.body.access_token, c.body.refresh_token}
    ELSE IF c.op = "refresh_token" /\ c.pc = "done" /\ c.status = 200
    THEN held \cup {c.body.access_token, c.body.refresh_token}
    ELSE held

----------------------------------------------------------------------------
(* History of the requests served one at a time, kept beside the program   *)
(* state: per username the run of consecutive failed logins, each within   *)
(* the lockout window of the one before, and the time of the latest one;   *)
(* the length of that run before the latest login and whether that login   *)
(* came within its window; the reset tokens redeemed so far; how far the   *)
(* latest cache round trip has come (a read, then a mutation that found    *)
(* and deleted the cache entry, then a read again) or, for a direct call   *)
(* of the store, whether the call found the TTL of its key lapsed; the     *)
(* operations that have met a store failure; the usernames whose account   *)
(* delete_user has removed; the tokens the client holds that were issued   *)
(* to an account removed since and to no account after it.                 *)

NoRun == [n |-> 0, at |-> 0]
NoHistory ==
    [streak |-> [u \in Usernames |-> NoRun], before |-> [n |-> 0, live |-> FALSE],
     redeemed |-> {}, trail |-> "none", outages |-> {}, deleted |-> {}, stale |-> {}]

WithinWindow(run, t) == run.n > 0 /\ t <= run.at + LOCKOUT_TIME * 60

Observe(c, h, t) ==
    IF c.fault # "none" /\ c.status = 500 /\ c.op \in {"login", "reset_password"}
    THEN [h EXCEPT !.outages = @ \cup {c.op}]
    ELSE IF c.op = "login"
    THEN LET run == h.streak[c.username]
             after == CASE c.status = 401 ->
                             [n |-> IF WithinWindow(run, t) THEN run.n + 1 ELSE 1, at |-> t]
                        [] c.status = 200 -> NoRun
                        [] OTHER -> run
         IN  [h EXCEPT !.streak[c.username] = after,
                       !.before = [n |-> run.n, live |-> WithinWindow(run, t)],
                       !.stale = IF c.status = 200 THEN {} ELSE @]
    ELSE IF c.op = "reset_password" /\ c.status = 200
    THEN [h EXCEPT !.redeemed = @ \cup {c.token}]
    ELSE IF c.op = "delete_user" /\ c.status = 200
    THEN [h EXCEPT !.deleted = @ \cup {c.username},
                   !.stale = @ \cup {b \in wallet : b.claims.sub = c.username}]
    ELSE IF c.op = "refresh_token" /\ c.status = 200
    THEN [h EXCEPT !.stale = @ \ {c.body.access_token, c.body.refresh_token}]
    ELSE IF c.op = "get_notifications" /\ c.status = 200
    THEN [h EXCEPT !.trail = IF @ = "mutated" THEN "reread" ELSE "read"]
    ELSE IF /\ c.op \in {"create_task", "mark_notification_read", "delete_notification"}
            /\ c.status = 200 /\ c.keys # {}
    THEN [h EXCEPT !.trail = "mutated"]
    ELSE h

----------------------------------------------------------------------------
(* Requests served one at a time *)

Init ==
    /\ now = 0
    /\ data = <<>>
    /\ expires = <<>>
    /\ users = (1 :> [username |-> "alice", email |-> "alice@example.com",
                      hashed_password |-> get_password_hash("Sw0rd!x"),
                      is_active |-> TRUE, role |-> "user"])
    /\ notifications = <<>>
    /\ tasks = <<>>
    /\ tags = <<>>
    /\ issued = 0
    /\ wallet = {}
    /\ started = 0
    /\ hist = NoHistory
    /\ proc = [p \in Workers |-> Idle]

\* serve request c whole on worker 1; s is the one outcome of the run
Serve(c) ==
    \E s \in {Run(c, World)} :
        /\ data' = s.w.redis.data
        /\ expires' = s.w.redis.expires
        /\ users' = s.w.users
        /\ notifications' = s.w.notifications
        /\ tasks' = s.w.tasks
        /\ tags' = s.w.tags
        /\ issued' = s.w.issued
        /\ proc' = [proc EXCEPT ![1] = s.c]
        /\ wallet' = Keep(s.c, wallet)
        /\ hist' = Observe(s.c, hist, now)

Login(username, password) ==
    /\ Serve(login_request(username, password))
    /\ UNCHANGED <<now, started>>

RequestPasswordReset(email) ==
    /\ issued < MaxResetTokens
    /\ Serve(request_password_reset_request(email))
    /\ UNCHANGED <<now, started>>

ResetPassword(token, new_password) ==
    /\ Serve(reset_password_request(token, new_password))
    /\ UNCHANGED <<now, started>>

\* a forged bearer token: the same claims signed with another key
Forged(tok) == [tok EXCEPT !.key = "other-key"]

GetCurrentUser(bearer) ==
    /\ Serve(get_current_user_request(bearer))
    /\ UNCHANGED <<now, started>>

Tick ==
    /\ now < MaxTicks * TickSeconds
    /\ now' = now + TickSeconds
    /\ UNCHANGED <<data, expires, users, notifications, tasks, tags, issued, wallet,
                   started, hist, proc>>

\* the login throttle and the password-reset flow of one principal
Next ==
    \/ \E p \in Passwords : Login("alice", p)
    \/ \E e \in Emails : RequestPasswordReset(e)
    \/ \E t \in ResetTokens, p \in Passwords : ResetPassword(t, p)
    \/ Tick

Spec == Init /\ [][Next]_vars

\* several reset tokens requested for one user, and their redemption
OpenResets == {uuid4(n) : n \in 1..MaxOpenResets}

RequestAnother(email) ==
    /\ issued < MaxOpenResets
    /\ Serve(request_password_reset_request(email))
    /\ UNCHANGED <<now, started>>

NextResets ==
    \/ RequestAnother("alice@example.com")
    \/ \E t \in OpenResets, p \in Passwords : ResetPassword(t, p)
    \/ \E p \in Passwords : Login("alice", p)
    \/ Tick

SpecResets == Init /\ [][NextResets]_vars

\* the login throttle alone, for a registered and an unknown username
NextThrottle ==
    \/ \E u \in Usernames, p \in Passwords : Login(u, p)
    \/ Tick

SpecThrottle == Init /\ [][NextThrottle]_vars

\* logins and authenticated requests
NextTokens ==
    \/ \E p \in Passwords : Login("alice", p)
    \/ \E b \in wallet \cup {Forged(x) : x \in wallet} : GetCurrentUser(b)
    \/ Tick

SpecTokens == Init /\ [][NextTokens]_vars

\* the session of one client: login, refresh-token, authenticated requests
\* and the deletion of its own account, over minutes and over weeks

RefreshToken(refresh_token) ==
    /\ Serve(refresh_token_request(refresh_token))
    /\ UNCHANGED <<now, started>>

DeleteUser(bearer, user_id) ==
    /\ Serve(delete_user_request(bearer, user_id))
    /\ UNCHANGED <<now, started>>

WeekSeconds == REFRESH_TOKEN_EXPIRE_DAYS * 24 * 60 * 60

SessionTick ==
    /\ now % WeekSeconds < MaxSessionTicks * TickSeconds
    /\ now' = now + TickSeconds
    /\ UNCHANGED <<data, expires, users, notifications, tasks, tags, issued, wallet,
                   started, hist, proc>>

WeekPasses ==
    /\ now < MaxWeeks * WeekSeconds
    /\ now' = now + WeekSeconds
    /\ UNCHANGED <<data, expires, users, notifications, tasks, tags, issued, wallet,
                   started, hist, proc>>

\* the tokens a client can present: those it holds, and forgeries of them
Presentable == wallet \cup {Forged(x) : x \in wallet}

NextSession ==
    \/ /\ UserByUsername(users, "alice") # NoUser
       /\ Login("alice", "Sw0rd!x")
    \/ \E b \in Presentable :
          /\ RefreshToken(b)
          /\ Cardinality(wallet') <= 2 * (1 + MaxRefreshes)
    \/ \E b \in Presentable : GetCurrentUser(b)
    \/ \E b \in wallet : DeleteUser(b, 1)
    \/ SessionTick
    \/ WeekPasses

SpecSession == Init /\ [][NextSession]_vars

\* an account is deactivated behind the API (no endpoint writes is_active):
\* the session of one client before and after its account is switched off
Deactivate(id) ==
    /\ id \in DOMAIN users
    /\ users[id].is_active
    /\ users' = [users EXCEPT ![id].is_active = FALSE]
    /\ UNCHANGED <<now, data, expires, notifications, tasks, tags, issued, wallet,
                   started, hist, proc>>

NextInactive ==
    \/ \E p \in Passwords : Login("alice", p)
    \/ \E b \in wallet :
          /\ RefreshToken(b)
          /\ Cardinality(wallet') <= 2 * (1 + MaxRefreshes)
    \/ \E b \in wallet : GetCurrentUser(b)
    \/ Deactivate(1)
    \/ SessionTick

SpecInactive == Init /\ [][NextInactive]_vars

\* accounts come and go: registration, login and the deletion of one's own
\* account, for two usernames and two e-mail addresses

Register(username, email, password) ==
    /\ Serve(register_request(username, email, password))
    /\ UNCHANGED <<now, started>>

NextAccounts ==
    \/ \E u \in Usernames, e \in Emails : Register(u, e, "Sw0rd!x")
    \/ \E p \in Passwords : Login("alice", p)
    \/ \E b \in wallet, id \in 1..Cardinality(Usernames) : DeleteUser(b, id)
    \/ \E b \in wallet : GetCurrentUser(b)
    \/ \E b \in wallet : RefreshToken(b)

SpecAccounts == Init /\ [][NextAccounts]_vars

\* notifications of one owner read through the cache and mutated, one
\* request at a time; the client holds the tokens of a login at time 0

InitCache ==
    /\ now = 0
    /\ data = <<>>
    /\ expires = <<>>
    /\ users = (1 :> [username |-> "alice", email |-> "alice@example.com",
                      hashed_password |-> get_password_hash("Sw0rd!x"),
                      is_active |-> TRUE, role |-> "user"])
    /\ notifications = <<>>
    /\ tasks = <<>>
    /\ tags = <<>>
    /\ issued = 0
    /\ wallet = {create_access_token([sub |-> "alice"],
                                     timedelta(ACCESS_TOKEN_EXPIRE_MINUTES * 60), 0),
                 create_refresh_token([sub |-> "alice"], 0)}
    /\ started = 0
    /\ hist = NoHistory
    /\ proc = [p \in Workers |-> Idle]

\* the faults of the store during one request: none, or the named call raises
CacheFaults == {"none", "get", "setex"}

TaskInputs == {[text |-> "Test task", priority |-> 1, tags |-> <<"test">>]}

GetNotifications(bearer, fault) ==
    /\ Serve(get_notifications_request(bearer, fault))
    /\ UNCHANGED <<now, started>>

MarkNotificationRead(bearer, notification_id) ==
    /\ Serve(mark_notification_read_request(bearer, notification_id))
    /\ UNCHANGED <<now, started>>

DeleteNotification(bearer, notification_id) ==
    /\ Serve(delete_notification_request(bearer, notification_id))
    /\ UNCHANGED <<now, started>>

CreateTask(bearer, task) ==
    /\ Cardinality(DOMAIN tasks) < MaxTasks
    /\ Serve(create_task_request(bearer, task))
    /\ UNCHANGED <<now, started>>

CacheTick ==
    /\ now < MaxCacheTicks * TickSeconds
    /\ now' = now + TickSeconds
    /\ UNCHANGED <<data, expires, users, notifications, tasks, tags, issued, wallet,
                   started, hist, proc>>

AccessTokens == {b \in wallet : "refresh" \notin DOMAIN b.claims}

NextCache ==
    \/ \E b \in AccessTokens, f \in CacheFaults : GetNotifications(b, f)
    \/ \E b \in AccessTokens, t \in TaskInputs : CreateTask(b, t)
    \/ \E b \in AccessTokens, n \in 1..MaxTasks : MarkNotificationRead(b, n)
    \/ \E b \in AccessTokens, n \in 1..MaxTasks : DeleteNotification(b, n)
    \/ CacheTick

SpecCache == InitCache /\ [][NextCache]_vars

----------------------------------------------------------------------------
(* Two worker threads: sync endpoints run in the thread pool, and a thread *)
(* may be preempted between any two store or database calls.               *)

\* the store after some requests: a failure counter below the limit or none,
\* and one reset token issued to the registered user
InitConc ==
    /\ now = 0
    /\ \E n \in 0..(MAX_LOGIN_ATTEMPTS - 1) :
         /\ data = IF n = 0 THEN (ResetKey(uuid4(1)) :> json_dumps(1))
                   ELSE (ResetKey(uuid4(1)) :> json_dumps(1)) @@ (LoginKey("alice") :> str(n))
         /\ expires = IF n = 0 THEN (ResetKey(uuid4(1)) :> RESET_TOKEN_TTL)
                      ELSE (ResetKey(uuid4(1)) :> RESET_TOKEN_TTL)
                           @@ (LoginKey("alice") :> LOCKOUT_TIME * 60)
    /\ users = (1 :> [username |-> "alice", email |-> "alice@example.com",
                      hashed_password |-> get_password_hash("Sw0rd!x"),
                      is_active |-> TRUE, role |-> "user"])
    /\ notifications = <<>>
    /\ tasks = <<>>
    /\ tags = <<>>
    /\ issued = 1
    /\ wallet = {}
    /\ started = 0
    /\ hist = NoHistory
    /\ proc = [p \in Workers |-> Idle]

\* a request arrives on an idle worker
Arrive(p, c) ==
    /\ proc[p].pc = "done"
    /\ started < MaxConcRequests
    /\ started' = started + 1
    /\ proc' = [proc EXCEPT ![p] = c]
    /\ UNCHANGED <<now, data, expires, users, notifications, tasks, tags, issued,
                   wallet, hist>>

\* worker p performs the next call of its handler
Advance(p, op) ==
    /\ proc[p].pc # "done"
    /\ proc[p].op = op
    /\ \E s \in {Step(proc[p], World)} :
           /\ data' = s.w.redis.data
           /\ expires' = s.w.redis.expires
           /\ users' = s.w.users
           /\ notifications' = s.w.notifications
           /\ tasks' = s.w.tasks
           /\ tags' = s.w.tags
           /\ issued' = s.w.issued
           /\ proc' = [proc EXCEPT ![p] = s.c]
           /\ wallet' = Keep(s.c, wallet)
    /\ UNCHANGED <<now, started, hist>>

LoginArrives(p, username, password) == Arrive(p, login_request(username, password))
LoginStep(p) == Advance(p, "login")
ResetPasswordArrives(p, token, new_password) ==
    Arrive(p, reset_password_request(token, new_password))
ResetPasswordStep(p) == Advance(p, "reset_password")

ConcTick ==
    /\ now < MaxConcTicks * TickSeconds
    /\ now' = now + TickSeconds
    /\ UNCHANGED <<data, expires, users, notifications, tasks, tags, issued, wallet,
                   started, hist, proc>>

NextConc ==
    \/ \E p \in Workers, pw \in Passwords : LoginArrives(p, "alice", pw)
    \/ \E p \in Workers : LoginStep(p)
    \/ \E p \in Workers, t \in ResetTokens, pw \in Passwords : ResetPasswordArrives(p, t, pw)
    \/ \E p \in Workers : ResetPasswordStep(p)
    \/ ConcTick

SpecConc == InitConc /\ [][NextConc]_vars

\* reads and mutations of one owner's notifications on the two worker
\* threads, over a reliable store; the client holds the tokens of a login
GetNotificationsArrives(p, bearer) == Arrive(p, get_notifications_request(bearer, "none"))
GetNotificationsStep(p) == Advance(p, "get_notifications")
CreateTaskArrives(p, bearer, task) == Arrive(p, create_task_request(bearer, task))
CreateTaskStep(p) == Advance(p, "create_task")
MarkNotificationReadArrives(p, bearer, notification_id) ==
    Arrive(p, mark_notification_read_request(bearer, notification_id))
MarkNotificationReadStep(p) == Advance(p, "mark_notification_read")
DeleteNotificationArrives(p, bearer, notification_id) ==
    Arrive(p, delete_notification_request(bearer, notification_id))
DeleteNotificationStep(p) == Advance(p, "delete_notification")

\* the state after a login and one create_task at time 0
InitCacheConc ==
    LET registered == (1 :> [username |-> "alice", email |-> "alice@example.com",
                             hashed_password |-> get_password_hash("Sw0rd!x"),
                             is_active |-> TRUE, role |-> "user"])
        bearer == create_access_token([sub |-> "alice"],
                                      timedelta(ACCESS_TOKEN_EXPIRE_MINUTES * 60), 0)
        empty == [redis |-> [data |-> <<>>, expires |-> <<>>], users |-> registered,
                  notifications |-> <<>>, tasks |-> <<>>, tags |-> <<>>,
                  issued |-> 0, now |-> 0]
        s == Run(create_task_request(bearer, CHOOSE t \in TaskInputs : TRUE), empty)
    IN  /\ now = 0
        /\ data = s.w.redis.data
        /\ expires = s.w.redis.expires
        /\ users = s.w.users
        /\ notifications = s.w.notifications
        /\ tasks = s.w.tasks
        /\ tags = s.w.tags
        /\ issued = 0
        /\ wallet = {bearer, create_refresh_token([sub |-> "alice"], 0)}
        /\ started = 0
        /\ hist = NoHistory
        /\ proc = [p \in Workers |-> Idle]

NextCacheConc ==
    \/ \E p \in Workers, b \in AccessTokens : GetNotificationsArrives(p, b)
    \/ \E p \in Workers : GetNotificationsStep(p)
    \/ \E p \in Workers, b \in AccessTokens, t \in TaskInputs : CreateTaskArrives(p, b, t)
    \/ \E p \in Workers : CreateTaskStep(p)
    \/ \E p \in Workers, b \in AccessTokens, n \in 1..MaxTasks :
          MarkNotificationReadArrives(p, b, n)
    \/ \E p \in Workers : MarkNotificationReadStep(p)
    \/ \E p \in Workers, b \in AccessTokens, n \in 1..MaxTasks :
          DeleteNotificationArrives(p, b, n)
    \/ \E p \in Workers : DeleteNotificationStep(p)

SpecCacheConc == InitCacheConc /\ [][NextCacheConc]_vars

\* registrations on the two worker threads, with one user registered before
RegisterArrives(p, username, email) ==
    Arrive(p, register_request(username, email, "Sw0rd!x"))
RegisterStep(p) == Advance(p, "register")

NextSignup ==
    \/ \E p \in Workers, u \in Usernames, e \in Emails : RegisterArrives(p, u, e)
    \/ \E p \in Workers : RegisterStep(p)

SpecSignup == Init /\ [][NextSignup]_vars

----------------------------------------------------------------------------
(* Requests served one at a time over a store that may fail; the store     *)
(* starts as above, with one reset token issued.                           *)

SecurityFaults == {"none", "get"}

LoginWhile(fault, username, password) ==
    /\ Serve([login_request(username, password) EXCEPT !.fault = fault])
    /\ UNCHANGED <<now, started>>

ResetPasswordWhile(fault, token, new_password) ==
    /\ Serve([reset_password_request(token, new_password) EXCEPT !.fault = fault])
    /\ UNCHANGED <<now, started>>

NextOutage ==
    \/ \E f \in SecurityFaults, p \in Passwords : LoginWhile(f, "alice", p)
    \/ \E f \in SecurityFaults, t \in ResetTokens, p \in Passwords :
          ResetPasswordWhile(f, t, p)
    \/ ConcTick

SpecOutage == InitConc /\ [][NextOutage]_vars

\* a drip of login attempts for one username: each attempt arrives gap
\* seconds after the one before, with gap below the lockout window
DripSeconds == 5 * 60
DripGaps == {0, DripSeconds}

DripAttempt(gap, password) ==
    /\ now + gap <= MaxDrips * DripSeconds
    /\ now' = now + gap
    /\ \E s \in {Run(login_request("alice", password), [World EXCEPT !.now = now + gap])} :
           /\ data' = s.w.redis.data
           /\ expires' = s.w.redis.expires
           /\ users' = s.w.users
           /\ proc' = [proc EXCEPT ![1] = s.c]
           /\ wallet' = Keep(s.c, wallet)
           /\ hist' = Observe(s.c, hist, now + gap)
    /\ UNCHANGED <<notifications, tasks, tags, issued, started>>

NextDrip == \E gap \in DripGaps, p \in Passwords : DripAttempt(gap, p)

SpecDrip == Init /\ [][NextDrip]_vars

\* the failure counter over a store whose expire may raise: logins served
\* one at a time from an empty store
CounterFaults == {"none", "expire"}

NextCounter ==
    \/ \E f \in CounterFaults, p \in Passwords : LoginWhile(f, "alice", p)
    \/ ConcTick

SpecCounter == Init /\ [][NextCounter]_vars

\* redemptions over a store whose delete may raise: the store starts with
\* one reset token issued, requests are served one at a time
RedeemFaults == {"none", "delete"}

NextRedeem ==
    \/ \E p \in Passwords : LoginWhile("none", "alice", p)
    \/ \E f \in RedeemFaults, t \in ResetTokens, p \in Passwords :
          ResetPasswordWhile(f, t, p)
    \/ ConcTick

SpecRedeem == InitConc /\ [][NextRedeem]_vars

----------------------------------------------------------------------------
(* Two owners over one store: alice reads and mutates her notifications     *)
(* while the store holds what bob's requests have left in it: his cache     *)
(* entry (he has no notifications), his failure counter after two failed    *)
(* logins and a reset token of his, each with its own TTL.                  *)

InitFrame ==
    /\ now = 0
    /\ data = (NotificationsKey(2) :> json_dumps_list(<<>>))
              @@ (LoginKey("bob") :> str(2))
              @@ (ResetKey(uuid4(1)) :> json_dumps(2))
    /\ expires = (NotificationsKey(2) :> CACHE_TTL)
                 @@ (LoginKey("bob") :> LOCKOUT_TIME * 60)
                 @@ (ResetKey(uuid4(1)) :> RESET_TOKEN_TTL)
    /\ users = (1 :> [username |-> "alice", email |-> "alice@example.com",
                      hashed_password |-> get_password_hash("Sw0rd!x"),
                      is_active |-> TRUE, role |-> "user"])
                @@ (2 :> [username |-> "bob", email |-> "bob@example.com",
                          hashed_password |-> get_password_hash("Sw0rd!x"),
                          is_active |-> TRUE, role |-> "user"])
    /\ notifications = <<>>
    /\ tasks = <<>>
    /\ tags = <<>>
    /\ issued = 1
    /\ wallet = {create_access_token([sub |-> u],
                                     timedelta(ACCESS_TOKEN_EXPIRE_MINUTES * 60), 0)
                    : u \in Usernames}
    /\ started = 0
    /\ hist = NoHistory
    /\ proc = [p \in Workers |-> Idle]

\* the access token that the client of username holds
TokenOf(username) == {b \in wallet : b.claims.sub = username}

FrameTick ==
    /\ now < MaxFrameTicks * TickSeconds
    /\ now' = now + TickSeconds
    /\ UNCHANGED <<data, expires, users, notifications, tasks, tags, issued, wallet,
                   started, hist, proc>>

NextFrame ==
    \/ \E b \in wallet : GetNotifications(b, "none")
    \/ \E b \in TokenOf("alice"), t \in TaskInputs : CreateTask(b, t)
    \/ \E b \in TokenOf("alice"), n \in 1..MaxTasks : MarkNotificationRead(b, n)
    \/ \E b \in TokenOf("alice"), n \in 1..MaxTasks : DeleteNotification(b, n)
    \/ FrameTick

SpecFrame == InitFrame /\ [][NextFrame]_vars

----------------------------------------------------------------------------
(* The token constructors of app.utils.security and app.core.utils called   *)
(* directly, and the token they return presented to refresh-token.          *)

Payloads == {[sub |-> "alice"], [sub |-> "bob"], [sub |-> "alice", role |-> "admin"]}
Deltas == {NoDelta, timedelta(0), timedelta(60), timedelta(ACCESS_TOKEN_EXPIRE_MINUTES * 60)}

\* constructor op hands its caller the token tok
Hands(op, tok) ==
    /\ proc' = [proc EXCEPT ![1] = [Idle EXCEPT !.op = op, !.bearer = tok]]
    /\ wallet' = {tok}
    /\ UNCHANGED <<now, data, expires, users, notifications, tasks, tags, issued,
                   started, hist>>

CreateAccessToken(payload, expires_delta) ==
    Hands("create_access_token", create_access_token(payload, expires_delta, now))

CoreUtilsCreateAccessToken(payload, expires_delta) ==
    Hands("core_utils_create_access_token",
           core_utils_create_access_token(payload, expires_delta, now))

CreateRefreshToken(payload) ==
    Hands("create_refresh_token", create_refresh_token(payload, now))

CoreUtilsCreateRefreshToken(payload) ==
    Hands("core_utils_create_refresh_token", core_utils_create_refresh_token(payload, now))

NextIssue ==
    \/ \E payload \in Payloads, ed \in Deltas : CreateAccessToken(payload, ed)
    \/ \E payload \in Payloads, ed \in Deltas : CoreUtilsCreateAccessToken(payload, ed)
    \/ \E payload \in Payloads : CreateRefreshToken(payload)
    \/ \E payload \in Payloads : CoreUtilsCreateRefreshToken(payload)
    \/ \E b \in wallet : wallet = {b} /\ RefreshToken(b)
    \/ Tick

SpecIssue == Init /\ [][NextIssue]_vars

----------------------------------------------------------------------------
(* The store called directly, one call at a time, as the tests of MockRedis *)
(* do: one key, second by second.                                           *)

StoreKeys == {"test_key"}
StoreValues == {str(1)}
StoreTTLs == {1, 2}

\* the call op(key) has left store s.r and returned s.ret: a value or None
\* (get), an int (incr, ttl) or a bool (set, setex, delete, expire)
Returned(op, key, ret) ==
    LET c == [Idle EXCEPT !.op = op, !.key = key]
    IN  CASE op = "get" -> [c EXCEPT !.ret = ret]
          [] op \in {"incr", "ttl"} -> [c EXCEPT !.ret_int = ret]
          [] OTHER -> [c EXCEPT !.ret_bool = ret]

Reply(op, key, s) ==
    /\ data' = s.r.data
    /\ expires' = s.r.expires
    /\ proc' = [proc EXCEPT ![1] = Returned(op, key, s.ret)]
    /\ hist' = [hist EXCEPT !.trail =
                    IF key \in DOMAIN expires /\ expires[key] < now THEN "lapsed" ELSE "live"]
    /\ UNCHANGED <<now, users, notifications, tasks, tags, issued, wallet, started>>

Store == [data |-> data, expires |-> expires]

StoreGet(key) == Reply("get", key, MockRedis_get(Store, key, now))
StoreSet(key, value, ex) == Reply("set", key, MockRedis_set(Store, key, value, ex, now))
StoreSetex(key, time, value) ==
    Reply("setex", key, MockRedis_setex(Store, key, time, value, now))
StoreDelete(key) == Reply("delete", key, MockRedis_delete(Store, key))
StoreIncr(key) ==
    /\ MockRedis_incr_read(Store, key) < MaxStoreCount
    /\ Reply("incr", key, MockRedis_incr(Store, key))
StoreExpire(key, time) == Reply("expire", key, MockRedis_expire(Store, key, time, now))
StoreTtl(key) == Reply("ttl", key, MockRedis_ttl(Store, key, now))

StoreTick ==
    /\ now < MaxStoreSeconds
    /\ now' = now + 1
    /\ UNCHANGED <<data, expires, users, notifications, tasks, tags, issued, wallet,
                   started, hist, proc>>

NextStore ==
    \/ \E k \in StoreKeys : StoreGet(k)
    \/ \E k \in StoreKeys, v \in StoreValues, ex \in StoreTTLs \cup {NoEx} : StoreSet(k, v, ex)
    \/ \E k \in StoreKeys, v \in StoreValues, time \in StoreTTLs : StoreSetex(k, time, v)
    \/ \E k \in StoreKeys : StoreDelete(k)
    \/ \E k \in StoreKeys : StoreIncr(k)
    \/ \E k \in StoreKeys, time \in StoreTTLs : StoreExpire(k, time)
    \/ \E k \in StoreKeys : StoreTtl(k)
    \/ StoreTick

SpecStore == Init /\ [][NextStore]_vars

----------------------------------------------------------------------------
(* Properties *)

last == proc[1]

\* the key holds a value that a get would return now
Present(key) == key \in DOMAIN data /\ ~(key \in DOMAIN expires /\ expires[key] < now)

LiveCount(username) ==
    IF Present(LoginKey(username)) THEN int(data[LoginKey(username)]) ELSE 0

Locked(username) == LiveCount(username) >= MAX_LOGIN_ATTEMPTS

ThrottleState(n) ==
    IF n = 0 THEN "Clear" ELSE IF n < MAX_LOGIN_ATTEMPTS THEN "Warned" ELSE "Locked"

\* password is the secret of the active principal registered as username
CorrectPassword(username, password) ==
    \E id \in DOMAIN users :
        /\ users[id].username = username
        /\ users[id].is_active
        /\ verify_password(password, users[id].hashed_password)

IssuesTokens(c) == "access_token" \in DOMAIN c.body

InvalidOrExpired(c) ==
    c.status = 400 /\ c.body = [detail |-> "Invalid or expired token"]

(* C1: a login for a username whose live failure counter has reached
   MAX_LOGIN_ATTEMPTS is answered 429 after the throttle check alone: no user
   lookup, no password verification, no tokens, whatever the password. *)
C1_LockedLoginRejected ==
    [][\A u \in Usernames, p \in Passwords :
          (Locked(u) /\ Login(u, p)) =>
              /\ proc'[1].status = 429
              /\ proc'[1].calls = <<"check_login_attempts">>
              /\ ~IssuesTokens(proc'[1])
              /\ wallet' = wallet]_vars

C1_Witness ==
    /\ last.op = "login" /\ last.status = 429
    /\ CorrectPassword(last.username, last.password)
    /\ Locked(last.username)

(* C2: after a run of exactly MAX_LOGIN_ATTEMPTS consecutive failed logins,
   each within the lockout window of the one before, a login with the correct
   password is answered 429 while the window of the latest failure lasts, and
   once that window has lapsed it succeeds and leaves no counter key. *)
C2_LockoutThenExpiry ==
    [][\A u \in Usernames, p \in Passwords :
          (/\ hist.streak[u].n = MAX_LOGIN_ATTEMPTS
           /\ CorrectPassword(u, p)
           /\ Login(u, p)) =>
              IF WithinWindow(hist.streak[u], now)
              THEN proc'[1].status = 429 /\ ~IssuesTokens(proc'[1])
              ELSE /\ proc'[1].status = 200 /\ IssuesTokens(proc'[1])
                   /\ LoginKey(u) \notin DOMAIN data']_vars

C2_Witness ==
    /\ last.op = "login" /\ last.status = 200
    /\ hist.before.n = MAX_LOGIN_ATTEMPTS /\ ~hist.before.live
    /\ LoginKey(last.username) \notin DOMAIN data

(* C8: after a successful login the username's counter key is absent and
   check_login_attempts answers true. *)
C8_SuccessClearsCounter ==
    (last.op = "login" /\ last.status = 200) =>
        /\ LoginKey(last.username) \notin DOMAIN data
        /\ check_login_attempts(
               MockRedis_get([data |-> data, expires |-> expires],
                             LoginKey(last.username), now).ret)

C8_Witness ==
    /\ last.op = "login" /\ last.status = 200
    /\ hist.before.n = MAX_LOGIN_ATTEMPTS - 1 /\ hist.before.live
    /\ LoginKey(last.username) \notin DOMAIN data

(* C9: a login answered 401 (wrong password or unknown username) finds the
   username Clear or Warned, leaves its counter at the live count plus one (1
   when there was none) and its expiry at now + LOCKOUT_TIME * 60, so the
   username ends Warned or Locked. *)
C9_FailureCountsAndRestartsWindow ==
    [][\A u \in Usernames, p \in Passwords :
          (Login(u, p) /\ proc'[1].status = 401) =>
              /\ ThrottleState(LiveCount(u)) \in {"Clear", "Warned"}
              /\ LoginKey(u) \in DOMAIN data'
              /\ data'[LoginKey(u)] = str(LiveCount(u) + 1)
              /\ LoginKey(u) \in DOMAIN expires'
              /\ expires'[LoginKey(u)] = now + LOCKOUT_TIME * 60
              /\ ThrottleState(LiveCount(u)') \in {"Warned", "Locked"}]_vars

C9_Witness ==
    /\ last.op = "login" /\ last.status = 401
    /\ hist.before.n = MAX_LOGIN_ATTEMPTS - 1 /\ hist.before.live
    /\ now > 0
    /\ ThrottleState(LiveCount(last.username)) = "Locked"
    /\ expires[LoginKey(last.username)] = now + LOCKOUT_TIME * 60

(* C4: served one at a time, a redemption that succeeds leaves the key
   reset_token:<T> absent, and every redemption of a token redeemed before is
   answered 400 'Invalid or expired token' and changes no user row. *)
C4_ResetTokenSingleUse ==
    [][\A t \in ResetTokens, p \in Passwords :
          ResetPassword(t, p) =>
              /\ proc'[1].status = 200 => ResetKey(t) \notin DOMAIN data'
              /\ t \in hist.redeemed =>
                    (InvalidOrExpired(proc'[1]) /\ users' = users)]_vars

C4_Witness ==
    /\ last.op = "reset_password" /\ InvalidOrExpired(last)
    /\ last.token \in hist.redeemed
    /\ now < RESET_TOKEN_TTL

(* C10: a redemption with a token that the store does not hold (never issued,
   lapsed, or redeemed) is answered 400 'Invalid or expired token' in every
   case and changes no user row. *)
C10_AbsentTokenRejected ==
    [][\A t \in ResetTokens, p \in Passwords :
          (~Present(ResetKey(t)) /\ ResetPassword(t, p)) =>
              (InvalidOrExpired(proc'[1]) /\ users' = users)]_vars

\* the rejected token was issued and never redeemed: it lapsed
C10_Witness ==
    /\ last.op = "reset_password" /\ InvalidOrExpired(last)
    /\ last.token = uuid4(1) /\ issued >= 1
    /\ last.token \notin hist.redeemed
    /\ CorrectPassword("alice", "Sw0rd!x")

\* reset token t has been drawn by request_password_reset
Issued(t) == \E n \in 1..issued : t = uuid4(n)

\* the store still holds reset token t past its expiry (it lapsed unredeemed)
LapsedInStore(t) ==
    /\ ResetKey(t) \in DOMAIN expires
    /\ expires[ResetKey(t)] < now

(* C11: a request_password_reset that succeeds leaves the key
   reset_token:<T> holding the user's id as JSON with its expiry at
   now + 3600, and nothing moves that expiry afterwards; a reset_password
   with T once that expiry has passed is answered 400 'Invalid or expired
   token' and changes no user row; and a token that has lapsed never becomes
   redeemable again (it stays lapsed or absent, and absent it is refused). *)
C11_ResetTokenStoredThenLapses ==
    [][/\ \A e \in Emails :
            (RequestPasswordReset(e) /\ proc'[1].status = 200) =>
                LET key == ResetKey(proc'[1].uuid)
                IN  /\ key \in DOMAIN data' /\ key \in DOMAIN expires'
                    /\ json_loads(data'[key]).user_id = UserByEmail(users, e)
                    /\ expires'[key] = now + RESET_TOKEN_TTL
       /\ \A t \in ResetTokens :
            LET key == ResetKey(t)
            IN  /\ (key \in DOMAIN expires /\ key \in DOMAIN expires') =>
                        expires'[key] = expires[key]
                /\ (Issued(t) /\ ~Present(key)) => ~Present(key)'
                /\ \A p \in Passwords :
                      (Issued(t) /\ ~Present(key) /\ ResetPassword(t, p)) =>
                          /\ InvalidOrExpired(proc'[1])
                          /\ users' = users
                          /\ t \in hist'.redeemed <=> t \in hist.redeemed]_vars

\* a token that lapsed in the store was refused, and the password it should
\* have changed is still the old one
C11_Witness ==
    /\ last.op = "reset_password" /\ InvalidOrExpired(last)
    /\ Issued(last.token) /\ last.token \notin hist.redeemed
    /\ ResetKey(last.token) \notin DOMAIN data
    /\ now > RESET_TOKEN_TTL
    /\ last.new_password = "NewPass1!"
    /\ users[1].hashed_password = get_password_hash("Sw0rd!x")

IsRefresh(tok) == "refresh" \in DOMAIN tok.claims /\ tok.claims.refresh
Genuine(tok) == tok.key = SECRET_KEY
Expired(tok) == tok.claims.exp < now
Registered(sub) == UserByUsername(users, sub) # NoUser

(* C12: refresh-token given a token without the refresh claim is answered
   401, returns no token pair and leaves the client's tokens as they were;
   when that token is otherwise valid (unexpired, subject registered) the
   answer is 'Invalid refresh token'. *)
C12_AccessTokenRefusedByRefresh ==
    [][\A b \in wallet :
          (~IsRefresh(b) /\ RefreshToken(b)) =>
              /\ proc'[1].status = 401
              /\ ~IssuesTokens(proc'[1])
              /\ wallet' = wallet
              /\ (~Expired(b) /\ Registered(b.claims.sub)) =>
                    proc'[1].body = [detail |-> "Invalid refresh token"]]_vars

C12_Witness ==
    /\ last.op = "refresh_token" /\ last.status = 401
    /\ last.bearer \in wallet /\ ~IsRefresh(last.bearer)
    /\ ~Expired(last.bearer) /\ Registered(last.bearer.claims.sub)
    /\ last.body = [detail |-> "Invalid refresh token"]

(* C13: an access token returned by login or by refresh-token, presented
   to get_current_user while now <= exp and its subject is registered, yields
   the user row whose username is the token's subject. *)
C13_AccessTokenAuthenticatesSubject ==
    [][\A b \in wallet :
          (/\ ~IsRefresh(b) /\ ~Expired(b) /\ Registered(b.claims.sub)
           /\ GetCurrentUser(b)) =>
              /\ proc'[1].status = 200
              /\ proc'[1].user = UserByUsername(users, b.claims.sub)
              /\ proc'[1].body = [username |-> b.claims.sub]]_vars

\* the token came from refresh-token (a login would have replaced the older
\* pair) and is used at the last second of its life
C13_Witness ==
    /\ last.op = "get_current_user" /\ last.status = 200
    /\ last.bearer \in wallet /\ ~IsRefresh(last.bearer)
    /\ \E a \in wallet : ~IsRefresh(a) /\ a.claims.exp < last.bearer.claims.exp
    /\ last.bearer.claims.exp = now
    /\ last.body = [username |-> "alice"]

(* C14: a token whose exp is before now is answered 401 by get_current_user
   (no user) and by refresh-token (no token pair, the client's tokens
   unchanged), whether or not its signature verifies. *)
C14_ExpiredTokenRejected ==
    [][\A b \in Presentable :
          Expired(b) =>
              /\ GetCurrentUser(b) =>
                    /\ proc'[1].status = 401
                    /\ proc'[1].user = NoUser
                    /\ "username" \notin DOMAIN proc'[1].body
              /\ RefreshToken(b) =>
                    /\ proc'[1].status = 401
                    /\ ~IssuesTokens(proc'[1])
                    /\ wallet' = wallet]_vars

\* a refresh token with a good signature, past its seven days, was refused
C14_Witness ==
    /\ last.op = "refresh_token" /\ last.status = 401
    /\ Genuine(last.bearer) /\ IsRefresh(last.bearer) /\ Expired(last.bearer)
    /\ Registered(last.bearer.claims.sub)

(* C15: refresh-token given an unexpired refresh token R of a registered
   subject returns 200 with an access token and a refresh token for that
   subject, and afterwards every unexpired refresh token the client holds (R,
   the earlier ones and the new one) is still accepted by refresh-token. *)
C15_RefreshDoesNotRevoke ==
    [][\A R \in wallet :
          (/\ IsRefresh(R) /\ ~Expired(R) /\ Registered(R.claims.sub)
           /\ RefreshToken(R)) =>
              /\ proc'[1].status = 200 /\ IssuesTokens(proc'[1])
              /\ ~IsRefresh(proc'[1].body.access_token)
              /\ IsRefresh(proc'[1].body.refresh_token)
              /\ proc'[1].body.access_token.claims.sub = R.claims.sub
              /\ proc'[1].body.refresh_token.claims.sub = R.claims.sub
              /\ wallet' = wallet \cup {proc'[1].body.access_token,
                                        proc'[1].body.refresh_token}
              /\ \A R2 \in wallet' :
                    (IsRefresh(R2) /\ ~Expired(R2)) =>
                        Run(refresh_token_request(R2), World').c.status = 200]_vars

\* the older of two unexpired refresh tokens was used after a newer one
\* had been issued, and was accepted
C15_Witness ==
    /\ last.op = "refresh_token" /\ last.status = 200
    /\ IsRefresh(last.bearer) /\ last.bearer \in wallet
    /\ \E R2 \in wallet :
          /\ IsRefresh(R2) /\ ~Expired(R2)
          /\ R2.claims.exp > last.bearer.claims.exp
          /\ R2 # last.body.refresh_token

\* why refresh-token refuses token b: "malformed" (the signature does not
\* verify), "expired", "wrong kind" (no refresh claim), or "none"
Cause(b) ==
    IF ~Genuine(b) THEN "malformed"
    ELSE IF Expired(b) THEN "expired"
    ELSE IF ~IsRefresh(b) THEN "wrong kind"
    ELSE "none"

(* C16: two refresh-token requests, each refused for one of the three
   causes (malformed, expired, wrong kind), get the same status and the same
   message. *)
C16_SameFailureForEveryCause ==
    [][\A b1 \in Presentable, b2 \in Presentable :
          (Cause(b1) # "none" /\ Cause(b2) # "none" /\ RefreshToken(b1)) =>
              \A other \in {Run(refresh_token_request(b2), World).c} :
                  /\ other.status = proc'[1].status
                  /\ other.body = proc'[1].body]_vars

\* the store r holds for username the count n with a window that starts at t
Counted(r, username, n, t) ==
    /\ LoginKey(username) \in DOMAIN r.data
    /\ r.data[LoginKey(username)] = str(n)
    /\ LoginKey(username) \in DOMAIN r.expires
    /\ r.expires[LoginKey(username)] = t + LOCKOUT_TIME * 60

(* C17: with neither username locked, a login with a wrong password for a
   registered username and a login for an unregistered username, run from
   the same state, get the same response, 401 'Incorrect username or
   password', and each leaves its own username's counter one higher with
   the window restarted and every other key as it was. *)
C17_UnknownUserLooksLikeWrongPassword ==
    [][\A u1 \in Usernames, u2 \in Usernames, p1 \in Passwords, p2 \in Passwords :
          (/\ Registered(u1) /\ ~CorrectPassword(u1, p1) /\ ~Registered(u2)
           /\ ~Locked(u1) /\ ~Locked(u2)
           /\ Login(u1, p1)) =>
              \A other \in {Run(login_request(u2, p2), World)} :
                  /\ proc'[1].status = 401
                  /\ proc'[1].body = [detail |-> "Incorrect username or password"]
                  /\ other.c.status = proc'[1].status
                  /\ other.c.body = proc'[1].body
                  /\ Counted([data |-> data', expires |-> expires'], u1,
                             LiveCount(u1) + 1, now)
                  /\ Counted(other.w.redis, u2, LiveCount(u2) + 1, now)
                  /\ \A k \in DOMAIN data \ {LoginKey(u1)} :
                        k \in DOMAIN data' /\ data'[k] = data[k]
                  /\ \A k \in DOMAIN data \ {LoginKey(u2)} :
                        k \in DOMAIN other.w.redis.data /\ other.w.redis.data[k] = data[k]
                  /\ users' = users /\ other.w.users = users]_vars

\* a wrong password for alice was refused while the unregistered bob stood
\* at another count
C17_Witness ==
    /\ last.op = "login" /\ last.status = 401
    /\ Registered(last.username) /\ ~CorrectPassword(last.username, last.password)
    /\ ~Registered("bob") /\ ~Locked("bob")
    /\ LiveCount("bob") > 0
    /\ LiveCount("bob") # LiveCount(last.username)

\* what get_notifications returns for user_id when it reads the tables now
CurrentNotifications(user_id) ==
    respond_objects(query_notifications(notifications, user_id))

(* C18: served one at a time over a reliable store, every create_task,
   mark_notification_read and delete_notification that succeeds leaves the
   owner's key user_notifications:<id> absent, and every get_notifications
   that succeeds returns the owner's notifications as the table holds them at
   that moment, so a read that follows a mutation never returns the snapshot
   cached before it. *)
C18_CacheInvalidatedOnMutation ==
    [][/\ \A b \in AccessTokens :
            /\ \A t \in TaskInputs :
                  (CreateTask(b, t) /\ proc'[1].status = 200) =>
                      NotificationsKey(proc'[1].user) \notin DOMAIN data'
            /\ \A n \in 1..MaxTasks :
                  ((MarkNotificationRead(b, n) \/ DeleteNotification(b, n))
                   /\ proc'[1].status = 200) =>
                      NotificationsKey(proc'[1].user) \notin DOMAIN data'
            /\ (GetNotifications(b, "none") /\ proc'[1].status = 200) =>
                  proc'[1].body = [notifications |-> CurrentNotifications(proc'[1].user)]
       /\ \A id \in DOMAIN users :
            Present(NotificationsKey(id))' =>
                respond_dicts(json_loads_list(data'[NotificationsKey(id)]))
                    = CurrentNotifications(id)']_vars

\* a read filled the cache, mark_notification_read found and deleted the
\* entry, and the read after it shows the notification as read
C18_Witness ==
    /\ hist.trail = "reread"
    /\ last.op = "get_notifications" /\ last.status = 200 /\ last.fault = "none"
    /\ Len(last.body.notifications) > 0
    /\ \E i \in 1..Len(last.body.notifications) : last.body.notifications[i].is_read
    /\ last.body.notifications = CurrentNotifications(last.user)

(* C20: a get_notifications whose cache lookup or cache write fails in the
   store still succeeds (200, never an error) and returns the owner's
   notifications as the table holds them. *)
C20_CacheFailureStillServes ==
    [][\A b \in AccessTokens, f \in {"get", "setex"} :
          (/\ ~Expired(b) /\ Registered(b.claims.sub)
           /\ GetNotifications(b, f)) =>
              /\ proc'[1].status = 200
              /\ proc'[1].body = [notifications |-> CurrentNotifications(proc'[1].user)]
              /\ notifications' = notifications]_vars

\* the lookup failed, and the request answered from the table with what it
\* holds
C20_Witness ==
    /\ last.op = "get_notifications" /\ last.status = 200 /\ last.fault = "get"
    /\ Len(last.body.notifications) > 0
    /\ last.body.notifications = CurrentNotifications(last.user)

(* C19: a login whose throttle check cannot read the store, and a
   reset_password whose token lookup cannot read the store, end in failure
   (500): the login goes no further than the throttle check and returns no
   tokens, the reset changes no user row and leaves the token as it was. *)
C19_SecurityReadsFailClosed ==
    [][/\ \A u \in Usernames, p \in Passwords :
            LoginWhile("get", u, p) =>
                /\ proc'[1].status = 500
                /\ proc'[1].calls = <<"check_login_attempts">>
                /\ ~IssuesTokens(proc'[1])
                /\ wallet' = wallet /\ users' = users
       /\ \A t \in ResetTokens, p \in Passwords :
            ResetPasswordWhile("get", t, p) =>
                /\ proc'[1].status = 500
                /\ users' = users
                /\ data' = data /\ expires' = expires]_vars

\* both operations have met the failure; the login just refused carried the
\* right password for a username that is not locked, and the token that a
\* reset could not look up is still redeemable
C19_Witness ==
    /\ hist.outages = {"login", "reset_password"}
    /\ last.op = "login" /\ last.fault = "get" /\ last.status = 500
    /\ CorrectPassword(last.username, last.password)
    /\ ~Locked(last.username)
    /\ Present(ResetKey(uuid4(1)))
    /\ users[1].hashed_password = get_password_hash("Sw0rd!x")

(* C6 as stated: the login with the new secret that follows a successful
   password reset succeeds and returns a token pair. *)
C6_LoginAfterResetSucceeds ==
    [][(/\ last.op = "reset_password" /\ last.status = 200
        /\ Login("alice", last.new_password)) =>
            (proc'[1].status = 200 /\ IssuesTokens(proc'[1]))]_vars

(* C6 as amended: the login with the new secret that follows a successful
   password reset succeeds and returns a token pair unless the username is
   locked out at that moment, in which case it is answered 429. *)
C6_LoginAfterResetUnlessLocked ==
    [][(/\ last.op = "reset_password" /\ last.status = 200
        /\ Login("alice", last.new_password)) =>
            IF Locked("alice")
            THEN proc'[1].status = 429 /\ ~IssuesTokens(proc'[1])
            ELSE proc'[1].status = 200 /\ IssuesTokens(proc'[1])]_vars

C6_Witness ==
    /\ last.op = "login" /\ last.status = 200 /\ IssuesTokens(last)
    /\ last.password = "NewPass1!"
    /\ hist.redeemed # {}
    /\ users[1].hashed_password = get_password_hash("NewPass1!")

(* C5: get_current_user rejects (401) every bearer token that carries the
   refresh claim. *)
C5_RefreshTokenRejectedAsBearer ==
    (last.op = "get_current_user" /\ "refresh" \in DOMAIN last.bearer.claims) =>
        last.status = 401

(* C3: two reset_password requests that carry the same reset token never
   both succeed, however the two threads interleave. *)
C3_AtMostOneRedemption ==
    ~(/\ \A p \in Workers :
            proc[p].op = "reset_password" /\ proc[p].pc = "done" /\ proc[p].status = 200
      /\ proc[1].token = proc[2].token)

(* C7: when the only two requests are failed logins for the same username
   and no time has passed, the counter ends two above the value the first
   increment read, however the two threads interleave. *)
C7_NoLostUpdate ==
    (/\ started = 2 /\ now = 0
     /\ \A p \in Workers :
            /\ proc[p].op = "login" /\ proc[p].pc = "done" /\ proc[p].status = 401
            /\ proc[p].username = "alice") =>
        /\ LoginKey("alice") \in DOMAIN data
        /\ int(data[LoginKey("alice")]) =
              (IF proc[1].current < proc[2].current THEN proc[1].current
               ELSE proc[2].current) + 2

\* the text of a response as the client reads it
ResponseText(c) ==
    IF "detail" \in DOMAIN c.body THEN {c.body.detail}
    ELSE IF "message" \in DOMAIN c.body THEN {c.body.message}
    ELSE IF "access_token" \in DOMAIN c.body
    THEN {c.body.token_type, c.body.access_token.claims.sub, c.body.refresh_token.claims.sub}
    ELSE IF "email" \in DOMAIN c.body THEN {c.body.username, c.body.email, c.body.role}
    ELSE {}

\* the pieces of the lines printed or logged once the secret has been handed
\* to the hasher (get_password_hash or verify_password); the one line a
\* handler writes before that is the first print of register
HasherCalls == {"get_password_hash", "verify_password"}

OutputAfterHashing(c) ==
    LET hashed == \E i \in 1..Len(c.calls) : c.calls[i] \in HasherCalls
        before == IF c.op = "register" THEN 1 ELSE 0
    IN  IF ~hashed THEN {}
        ELSE UNION {{c.output[i][j] : j \in 1..Len(c.output[i])} :
                        i \in (before + 1)..Len(c.output)}

\* the pieces of the messages handed to the mail collaborator
OutboundText(c) ==
    UNION {{c.outbox[i].html_content[j] : j \in 1..Len(c.outbox[i].html_content)}
              \cup {c.outbox[i].subject, c.outbox[i].email_to} : i \in 1..Len(c.outbox)}

Secrets(c) == {c.password, c.new_password} \ {""}

(* C21: no request of register, login or reset_password places the plaintext
   secret it was given in its response, in a line printed or logged after
   the secret went to the hasher, or in an outbound message. *)
C21_PlaintextNeverExposed ==
    last.op \in {"register", "login", "reset_password"} =>
        Secrets(last) \cap (ResponseText(last) \cup OutputAfterHashing(last)
                               \cup OutboundText(last)) = {}

(* C22: whenever no request is in flight, every login_attempts:<P> key in
   the store carries a TTL, and that TTL is at most the lockout window. *)
C22_EveryCounterHasTTL ==
    (\A p \in Workers : proc[p].pc = "done") =>
        \A u \in Usernames :
            LoginKey(u) \in DOMAIN data =>
                /\ LoginKey(u) \in DOMAIN expires
                /\ expires[LoginKey(u)] - now <= LOCKOUT_TIME * 60


(* C23 as stated: in a drip of login attempts, each arriving within the
   lockout window of the one before, a locked username stays locked. *)
C23_DripKeepsLocked ==
    [][\A gap \in DripGaps, p \in Passwords :
          (Locked("alice") /\ DripAttempt(gap, p)) => Locked("alice")']_vars

(* C23 as amended: the window restarts on every failure that is counted (a
   401), but an attempt that finds the username locked is answered 429 and
   leaves the counter and its expiry as they were; so in a drip of attempts
   the lockout ends once the window of the last counted failure has lapsed,
   and the attempt that arrives after that is checked against the password
   again. *)
C23_LockoutEndsDespiteDrip ==
    [][\A gap \in DripGaps, p \in Passwords :
          (Locked("alice") /\ DripAttempt(gap, p)) =>
              LET key == LoginKey("alice")
              IN  IF now' <= expires[key]
                  THEN /\ proc'[1].status = 429
                       /\ data'[key] = data[key] /\ expires'[key] = expires[key]
                       /\ Locked("alice")'
                  ELSE /\ proc'[1].status \in {200, 401}
                       /\ ~Locked("alice")'
                       /\ proc'[1].status = 401 =>
                             /\ data'[key] = str(1)
                             /\ expires'[key] = now' + LOCKOUT_TIME * 60]_vars

\* a drip has outlasted a lockout: the attempt just answered 401 is the first
\* one counted after a run of MAX_LOGIN_ATTEMPTS failures whose window lapsed
\* while attempts kept arriving
C23_Witness ==
    /\ last.op = "login" /\ last.status = 401
    /\ hist.before.n = MAX_LOGIN_ATTEMPTS /\ ~hist.before.live
    /\ LiveCount("alice") = 1
    /\ ~Locked("alice")

\* the expiry record of key says that its TTL has lapsed
Lapsed(key) == key \in DOMAIN expires /\ expires[key] < now

\* this step is the call op(key) of the store (the clock stands still in a call)
Calls(op, key) == now' = now /\ proc'[1].op = op /\ proc'[1].key = key

(* C24: get on a key whose TTL has lapsed returns None and removes the value
   and the expiry record; a get that returns a value finds a key whose TTL
   has not lapsed, returns the stored value and changes nothing; no expiry
   record is kept for a key without a value. *)
C24_GetEvictsLapsedKey ==
    [][\A k \in StoreKeys :
          /\ Calls("get", k) =>
                IF Lapsed(k)
                THEN /\ proc'[1].ret = None
                     /\ k \notin DOMAIN data' /\ k \notin DOMAIN expires'
                ELSE /\ proc'[1].ret = IF k \in DOMAIN data THEN data[k] ELSE None
                     /\ data' = data /\ expires' = expires
          /\ DOMAIN expires' \subseteq DOMAIN data']_vars

\* a get has just evicted a key that was set with a TTL and lapsed
C24_Witness ==
    /\ last.op = "get" /\ last.ret = None
    /\ now > 1
    /\ last.key \notin DOMAIN data /\ last.key \notin DOMAIN expires
    /\ hist.trail = "lapsed"

(* C25: incr on a key that is absent, or whose TTL has lapsed, stores and
   returns 1; on a live key holding n it stores and returns n + 1. *)
C25_IncrStartsAfreshOnLapsedKey ==
    [][\A k \in StoreKeys :
          Calls("incr", k) =>
              LET n == IF Present(k) THEN int(data[k]) ELSE 0
              IN  /\ proc'[1].ret_int = n + 1
                  /\ data'[k] = str(n + 1)]_vars

\* the remaining seconds that ttl reports for a live key with a TTL
Remaining(key) == expires[key] - now

(* C26: ttl returns -2 exactly when the key is absent (never set, deleted
   or lapsed), -1 exactly when it is present without a TTL, and otherwise
   the remaining seconds: positive, at most the largest TTL that can have
   been set, and, while more than a second remains, larger than the answer
   a second later. *)
C26_TtlReportsRemainingSeconds ==
    [][\A k \in StoreKeys :
          Calls("ttl", k) =>
              LET answer == proc'[1].ret_int
                  later == MockRedis_ttl([data |-> data', expires |-> expires'], k, now + 1).ret
              IN  /\ answer = -2 <=> ~Present(k)
                  /\ answer = -1 <=> (Present(k) /\ k \notin DOMAIN expires)
                  /\ answer \notin {-2, -1} =>
                        /\ answer > 0
                        /\ \E time \in StoreTTLs : answer <= time
                        /\ Remaining(k) > 1 => later < answer]_vars

(* C27: right after set(key, value) or set(key, value, ex), and from then on
   until the TTL given lapses, get(key) returns value, whatever the key held
   before; a set without ex leaves the key without a TTL. *)
C27_SetThenGet ==
    [][\A k \in StoreKeys, v \in StoreValues, ex \in StoreTTLs \cup {NoEx} :
          StoreSet(k, v, ex) =>
              LET after == [data |-> data', expires |-> expires']
                  alive == IF ex # NoEx THEN now..(now + ex) ELSE now..(MaxStoreSeconds + 1)
              IN  /\ \A t \in alive : MockRedis_get(after, k, t).ret = v
                  /\ ex = NoEx => k \notin DOMAIN expires']_vars

(* C28: once delete_user has removed the account of P, every token issued
   to P before is answered 401 by get_current_user and by refresh-token,
   and, while no account carries P's username, a login as P is answered 401. *)
C28_DeletedPrincipalRejected ==
    [][/\ \A b \in wallet :
            (b.claims.sub \in hist.deleted /\ GetCurrentUser(b)) => proc'[1].status = 401
       /\ \A b \in wallet :
            (b.claims.sub \in hist.deleted /\ RefreshToken(b)) => proc'[1].status = 401
       /\ \A u \in Usernames, p \in Passwords :
            (u \in hist.deleted /\ ~Registered(u) /\ Login(u, p)) =>
                proc'[1].status = 401]_vars

\* no two rows of the users table share a username or an e-mail address
Unique(u) ==
    \A i \in DOMAIN u, j \in DOMAIN u :
        i # j => (u[i].username # u[j].username /\ u[i].email # u[j].email)

\* some user has the username or the e-mail address that request c asks for
InUse(c) == \E i \in DOMAIN users : users[i].username = c.username \/ users[i].email = c.email

(* C29: no two users ever share a username or an e-mail address; a register
   that finds its username or e-mail in use is answered 400 'Username or
   email already registered' and adds no user; one that commits fresh
   values adds exactly one row, active and with role 'user', and is
   answered 200; one whose values were taken between its lookup and its
   commit adds no row. *)
C29_UsersStayUnique ==
    [][/\ Unique(users')
       /\ \A p \in Workers :
            RegisterStep(p) =>
                LET c == proc[p]
                    new == DOMAIN users' \ DOMAIN users
                IN  /\ DOMAIN users \subseteq DOMAIN users'
                    /\ \A i \in DOMAIN users : users'[i] = users[i]
                    /\ (c.pc = "register_query" /\ InUse(c)) =>
                          /\ proc'[p].status = 400
                          /\ proc'[p].body = [detail |-> "Username or email already registered"]
                          /\ new = {}
                    /\ (c.pc = "register_query" /\ ~InUse(c)) =>
                          (new = {} /\ proc'[p].pc = "register_commit")
                    /\ (c.pc = "register_commit" /\ InUse(c)) =>
                          (new = {} /\ proc'[p].status = 500)
                    /\ (c.pc = "register_commit" /\ ~InUse(c)) =>
                          /\ Cardinality(new) = 1
                          /\ \A i \in new :
                                /\ users'[i].username = c.username
                                /\ users'[i].email = c.email
                                /\ users'[i].is_active /\ users'[i].role = "user"
                                /\ verify_password(c.password, users'[i].hashed_password)
                    /\ c.pc = "register_respond" =>
                          (new = {} /\ proc'[p].status = 200 /\ proc'[p].body.id = c.user)]_vars

\* one registration has added a second user, and another one that asked
\* for the same username was refused
C29_Witness ==
    /\ Cardinality(DOMAIN users) = 2
    /\ \E p \in Workers, q \in Workers :
          /\ proc[p].op = "register" /\ proc[p].status = 200
          /\ proc[q].op = "register" /\ proc[q].status = 400
          /\ proc[q].username = proc[p].username

(* C30: once every request has finished, a cache entry that is present for
   an owner holds the owner's notifications as the table holds them. *)
C30_CacheEntryIsCurrent ==
    (\A p \in Workers : proc[p].pc = "done") =>
        \A id \in DOMAIN users :
            Present(NotificationsKey(id)) =>
                data[NotificationsKey(id)]
                    = json_dumps_list(query_notifications(notifications, id))

(* C31: a reset_password request that ends in a failure, a store error
   raised by the token delete included, leaves every user's stored password
   hash as it was before the request. *)
C31_FailedResetKeepsCredential ==
    [][(\E f \in RedeemFaults, t \in ResetTokens, p \in Passwords :
            ResetPasswordWhile(f, t, p) /\ proc'[1].status # 200)
        => \A id \in DOMAIN users :
              id \in DOMAIN users' /\ users'[id].hashed_password = users[id].hashed_password]_vars

(* C32: a token never authenticates as an account other than the one it was
   issued to: get_current_user with a token whose account has been deleted
   since fails, whatever was registered afterwards, and with any other token
   it fails or returns the account of the token's subject. *)
C32_TokenBoundToItsAccount ==
    [][\A b \in wallet :
          GetCurrentUser(b) =>
              \/ proc'[1].status = 401
              \/ /\ b \notin hist.stale
                 /\ proc'[1].status = 200
                 /\ users[proc'[1].user].username = b.claims.sub]_vars

(* C33: while the account of a principal is deactivated, no login for it
   and no refresh-token request with a token of its own returns a token
   pair, and a login with the correct password that is not locked out is
   answered 400 'Inactive user'. *)
C33_InactiveGetsNoTokens ==
    [][/\ \A p \in Passwords :
            (~users[1].is_active /\ Login("alice", p)) =>
                /\ proc'[1].status # 200
                /\ (CorrectPassword("alice", p) /\ ~Locked("alice")) =>
                       /\ proc'[1].status = 400
                       /\ proc'[1].body = [detail |-> "Inactive user"]
       /\ \A b \in wallet :
            (~users[1].is_active /\ b.claims.sub = "alice" /\ RefreshToken(b)) =>
                proc'[1].status # 200]_vars

\* the reset tokens in the store that reset_password would accept for user id
Redeemable(r, id, t) ==
    {tok \in OpenResets :
        /\ ResetKey(tok) \in DOMAIN r.data
        /\ ResetKey(tok) \in DOMAIN r.expires => r.expires[ResetKey(tok)] >= t
        /\ json_loads(r.data[ResetKey(tok)]).user_id = id}

(* C34: a successful reset_password for a user leaves no redeemable reset
   token for that user in the store. *)
C34_ResetRevokesOtherTokens ==
    [][\A t \in OpenResets, p \in Passwords :
          (ResetPassword(t, p) /\ proc'[1].status = 200) =>
              Redeemable([data |-> data', expires |-> expires'], proc'[1].user, now) = {}]_vars

(* C35: a login rejected with 429 leaves the store as it was, counter and
   expiry included; so with requests served one at a time no counter exceeds
   MAX_LOGIN_ATTEMPTS, and the counter of a locked username expires one
   lockout window after the failure that was counted last. *)
C35_RateLimitedLeavesStore ==
    /\ [][\A u \in Usernames, p \in Passwords :
             (Login(u, p) /\ proc'[1].status = 429) =>
                 /\ Locked(u)
                 /\ data' = data /\ expires' = expires
                 /\ users' = users]_vars
    /\ [](\A u \in Usernames :
             /\ LoginKey(u) \in DOMAIN data => int(data[LoginKey(u)]) <= MAX_LOGIN_ATTEMPTS
             /\ Locked(u) => expires[LoginKey(u)] = hist.streak[u].at + LOCKOUT_TIME * 60)

\* a locked username was refused once more at the last second of its
\* window, a quarter of an hour after the failure that was counted last
C35_Witness ==
    /\ last.op = "login" /\ last.status = 429
    /\ Locked(last.username)
    /\ now = hist.streak[last.username].at + LOCKOUT_TIME * 60

(* C36: create_access_token(data, expires_delta), of app.utils.security and
   of app.core.utils, returns a token whose exp is now + expires_delta for
   every expires_delta supplied, one of zero length included, and now +
   ACCESS_TOKEN_EXPIRE_MINUTES when none is supplied; the claims of data are
   carried over unchanged and nothing else is added. *)
C36_ExpIsNowPlusDelta ==
    [][\A payload \in Payloads, ed \in Deltas :
          (CreateAccessToken(payload, ed) \/ CoreUtilsCreateAccessToken(payload, ed)) =>
              LET claims == proc'[1].bearer.claims
              IN  /\ claims.exp = now + (IF ed = NoDelta THEN ACCESS_TOKEN_EXPIRE_MINUTES * 60
                                         ELSE ed[1])
                  /\ DOMAIN claims = DOMAIN payload \cup {"exp"}
                  /\ \A k \in DOMAIN payload : claims[k] = payload[k]]_vars

(* C37: a token returned by create_refresh_token, of app.utils.security or
   of app.core.utils, carries refresh = true and exp = now +
   REFRESH_TOKEN_EXPIRE_DAYS, and refresh-token answers 200 to it while it
   has not expired and its subject is registered. *)
C37_RefreshTokensAreFlagged ==
    [][/\ \A payload \in Payloads :
            (CreateRefreshToken(payload) \/ CoreUtilsCreateRefreshToken(payload)) =>
                LET claims == proc'[1].bearer.claims
                IN  /\ "refresh" \in DOMAIN claims /\ claims.refresh = TRUE
                    /\ claims.exp = now + REFRESH_TOKEN_EXPIRE_DAYS * 24 * 60 * 60
       /\ \A b \in wallet :
            (/\ last.op \in {"create_refresh_token", "core_utils_create_refresh_token"}
             /\ b = last.bearer
             /\ Registered(b.claims.sub) /\ b.claims.exp >= now
             /\ RefreshToken(b)) => proc'[1].status = 200]_vars

\* the handler that has just answered made the call named name
Made(name) == \E i \in 1..Len(proc'[1].calls) : proc'[1].calls[i] = name

(* C38: a get_notifications that finds a cache entry for the owner, the
   snapshot of an empty list included, returns that snapshot and neither
   reads the table nor writes the store; one that finds no entry reads the
   table, stores the result under user_notifications:<owner> for CACHE_TTL
   seconds and returns it. *)
C38_HitServedFromCache ==
    [][\A b \in AccessTokens :
          (GetNotifications(b, "none") /\ proc'[1].status = 200) =>
              LET key == NotificationsKey(proc'[1].user)
              IN  IF Present(key)
                  THEN /\ proc'[1].body =
                             [notifications |-> respond_dicts(json_loads_list(data[key]))]
                       /\ ~Made("db.query")
                       /\ data' = data /\ expires' = expires
                  ELSE /\ Made("db.query")
                       /\ proc'[1].body =
                             [notifications |-> CurrentNotifications(proc'[1].user)]
                       /\ key \in DOMAIN data'
                       /\ respond_dicts(json_loads_list(data'[key])) =
                             CurrentNotifications(proc'[1].user)
                       /\ expires'[key] = now + CACHE_TTL]_vars

\* this step is a cache invalidation by owner b: a create_task, a
\* mark_notification_read or a delete_notification that reached clear_cache
Invalidates(b) ==
    /\ \/ \E t \in TaskInputs : CreateTask(b, t)
       \/ \E n \in 1..MaxTasks : MarkNotificationRead(b, n) \/ DeleteNotification(b, n)
    /\ Made("clear_cache")

(* C39 as stated: an invalidation by owner O removes only the key
   user_notifications:<O>; every other key of the store is left with its
   value and its TTL. *)
C39_OnlyOwnersKeyRemoved ==
    [][\A b \in wallet :
          Invalidates(b) =>
              \A k \in DOMAIN data \ {NotificationsKey(proc'[1].user)} :
                  /\ k \in DOMAIN data' /\ data'[k] = data[k]
                  /\ k \in DOMAIN expires => k \in DOMAIN expires' /\ expires'[k] = expires[k]]_vars

(* C39 as amended: an invalidation by owner O removes the key
   user_notifications:<O> and, through MockRedis.keys, every key whose TTL
   has lapsed, whatever it holds; every other key is left with its value
   and its TTL, and no key is added. *)
C39_LiveKeysOfOthersKept ==
    [][\A b \in wallet :
          Invalidates(b) =>
              LET own == NotificationsKey(proc'[1].user)
                  gone == {k \in DOMAIN data : k = own \/ Lapsed(k)}
              IN  /\ DOMAIN data' = DOMAIN data \ gone
                  /\ DOMAIN expires' = DOMAIN expires \ gone
                  /\ \A k \in DOMAIN data' : data'[k] = data[k]
                  /\ \A k \in DOMAIN expires' : expires'[k] = expires[k]]_vars

\* alice's invalidation has just removed her own entry and left the store
\* holding bob's live reset token, while bob's lapsed counter went with it
C39_Witness ==
    /\ last.op \in {"create_task", "mark_notification_read", "delete_notification"}
    /\ last.status = 200 /\ last.keys = {NotificationsKey(1)}
    /\ now > LOCKOUT_TIME * 60
    /\ LoginKey("bob") \notin DOMAIN data
    /\ Present(ResetKey(uuid4(1)))

============================================================================
